---- MODULE Spec2Model ----
(***************************************************************************)
(* Market-making bot: the cycle engine (runner.run_once and                *)
(* BitMartAdapter.refresh_orders), the scheduler (main.main) and the batch *)
(* canceller (BatchCancelMixin._cancel_in_batches).                        *)
(*                                                                         *)
(* Units.  Prices are integers counting 1e-10 quote units, so that every   *)
(* price constant of the code is exact: 1e-10 is 1, the eight decimals of  *)
(* round(x, 8) are a grid of 100, 0.01 is 100000000.  The anchor (BTC)     *)
(* price counts tenths of a quote unit, so that reference_multiplier       *)
(* (1.1e-8 per unit) is 11 price units per tenth.                          *)
(*                                                                         *)
(* Order quantities are not part of the state: random_sizes draws from     *)
(* [size_min, size_max] with size_min > 0, so clamp_by_limits never        *)
(* returns None and the quantity pipeline (runner.py 105-112) decides no   *)
(* branch of the cycle.                                                    *)
(***************************************************************************)
EXTENDS Integers, Sequences, FiniteSets, TLC

\* ------------------------------------------------------------------------
\* Bounds of the model
\* ------------------------------------------------------------------------
\* config.py sets depth_min = 5 and depth_max = 10; the model draws the depth
\* from a smaller range.
depth_min == 1
depth_max == 2
\* Number of cycles one behaviour runs for a venue.
MaxCycles == 2

\* ------------------------------------------------------------------------
\* Program constants
\* ------------------------------------------------------------------------
reference_multiplier == 11
gap_min == 10000
gap_max == 20000
maker_guard_ticks == 3
refresh_maker_guard_ticks == 2
FallbackBtc == 920000
RoundGrid == 100
MinTick == 1
ManualPrecLimit == 100000000
PriceStep == 100

\* Python's None, and a value that is present.
None == <<>>
Some(v) == <<v>>

\* create_limit's return value in dry-run mode: the literal "dry" (P2B,
\* Biconomy, Tapbit) is 0, the string "dry_<timestamp>" (BitMart, DexTrade) is
\* the negated call stamp.  Identifiers the venue hands out are positive.
DryLiteral == 0
DryStamp(n) == 0 - n

Adapters == {"bitmart", "p2b"}
\* The keys main's prev_ids can hold: cfg.id of any adapter.
VenueKeys == Adapters \cup {"base"}
StepSet == {0 - PriceStep, 0, PriceStep}

\* Orders on the account and pair that the bot did not place, one placed by
\* hand for example; the venue's identifiers for the bot's orders start at 1.
ForeignOrders == {99}

\* Inputs drawn by the environment.
BtcSet == {0, 5, 40, 40065, FallbackBtc}
QuoteSet == {<<None, None>>, <<Some(0), Some(0)>>,
             <<Some(430000), Some(431000)>>, <<Some(460000), Some(461000)>>}
GapSet == {gap_min, gap_max}
RefreshMidSet == {440, 440715}

Max(a, b) == IF a >= b THEN a ELSE b
Min(a, b) == IF a <= b THEN a ELSE b

RECURSIVE SeqsOf(_, _)
SeqsOf(S, n) ==
  IF n = 0 THEN {<<>>}
  ELSE {Append(s, x) : s \in SeqsOf(S, n - 1), x \in S}

\* ------------------------------------------------------------------------
\* helpers/utils.py
\* ------------------------------------------------------------------------
quantize_down(x, step) ==
  IF step <= 0 THEN x ELSE (x \div step) * step

quantize_up(x, step) ==
  IF step <= 0 THEN x ELSE (0 - ((0 - x) \div step)) * step

\* round(x, 8): to the nearest multiple of 1e-8, a tie to the even multiple.
Round8(x) ==
  LET q == x \div RoundGrid
      r == x % RoundGrid
  IN  IF 2 * r < RoundGrid THEN q * RoundGrid
      ELSE IF 2 * r > RoundGrid THEN (q + 1) * RoundGrid
      ELSE IF q % 2 = 0 THEN q * RoundGrid ELSE (q + 1) * RoundGrid

\* Every adapter's price_to_precision is round(p, 8).
price_to_precision(ad, p) == Round8(p)

RECURSIVE SumGaps(_, _)
\* acc after k iterations of build_ladder's loop.
SumGaps(gaps, k) == IF k = 0 THEN 0 ELSE SumGaps(gaps, k - 1) + gaps[k]

\* build_ladder without the accumulator: the gap of the level alone.
build_ladder_NoAcc(mid, side, depth, gaps) ==
  [k \in 1..depth |-> IF side = "buy" THEN mid - gaps[k] ELSE mid + gaps[k]]

\* gaps: the values random.uniform(gap_min, gap_max) returns, in order.
build_ladder(mid, side, depth, gaps) ==
  [k \in 1..depth |->
     IF side = "buy" THEN mid - SumGaps(gaps, k) ELSE mid + SumGaps(gaps, k)]

\* ------------------------------------------------------------------------
\* runner.py: the price checks of one ladder level
\* ------------------------------------------------------------------------
\* Manual precision for low prices, the adapter's rounding otherwise.
adjust_precision(ad, raw_price) ==
  IF raw_price < ManualPrecLimit THEN Round8(raw_price)
  ELSE price_to_precision(ad, raw_price)

\* CRITICAL CHECK 1 and 2 of the buy side: TRUE when the level is rejected.
buy_rejected(adjusted_price, mid_price) == adjusted_price >= mid_price

buy_rejected_after_adjustments_NoCheck(adjusted_price, mid_price) == FALSE

buy_rejected_after_adjustments(adjusted_price, mid_price) ==
  adjusted_price >= mid_price

\* CRITICAL CHECK 1 and 2 of the sell side.
sell_rejected(adjusted_price, mid_price) == adjusted_price <= mid_price

sell_rejected_after_adjustments(adjusted_price, mid_price) ==
  adjusted_price <= mid_price

buy_maker_guard(adjusted_price, best_ask, tick) ==
  IF best_ask # None /\ maker_guard_ticks > 0
  THEN LET allowed_max == best_ask[1] - maker_guard_ticks * tick
       IN  IF adjusted_price >= allowed_max
           THEN quantize_down(allowed_max, tick) ELSE adjusted_price
  ELSE adjusted_price

sell_maker_guard(adjusted_price, best_bid, tick) ==
  IF best_bid # None /\ maker_guard_ticks > 0
  THEN LET allowed_min == best_bid[1] + maker_guard_ticks * tick
       IN  IF adjusted_price <= allowed_min
           THEN quantize_up(allowed_min, tick) ELSE adjusted_price
  ELSE adjusted_price

\* The price run_once submits for a buy level, None when it rejects the level.
buy_price(ad, raw_price, mid_price, best_ask, tick) ==
  LET p1 == adjust_precision(ad, raw_price)
      p2 == Max(buy_maker_guard(p1, best_ask, tick), tick)
  IN  IF buy_rejected(p1, mid_price) THEN None
      ELSE IF buy_rejected_after_adjustments(p2, mid_price) THEN None
      ELSE Some(p2)

sell_price(ad, raw_price, mid_price, best_bid, tick) ==
  LET p1 == adjust_precision(ad, raw_price)
      p2 == Max(sell_maker_guard(p1, best_bid, tick), tick)
  IN  IF sell_rejected(p1, mid_price) THEN None
      ELSE IF sell_rejected_after_adjustments(p2, mid_price) THEN None
      ELSE Some(p2)

\* ------------------------------------------------------------------------
\* adapters: what a venue call can return
\* ------------------------------------------------------------------------
\* BitMartAdapter.fetch_btc_last has no try block: a failed request raises.
\* P2BAdapter.fetch_btc_last catches and returns 92000.0 itself.
fetch_btc_last_outcomes(ad) ==
  {[raised |-> FALSE, value |-> b] : b \in BtcSet}
    \cup (IF ad = "bitmart" THEN {[raised |-> TRUE, value |-> 0]} ELSE {})

\* BitMartAdapter.fetch_best_quotes has no try block either.
fetch_best_quotes_outcomes(ad) ==
  {[raised |-> FALSE, value |-> q] : q \in QuoteSet}
    \cup (IF ad = "bitmart" THEN {[raised |-> TRUE, value |-> <<None, None>>]} ELSE {})

get_steps(ad) == PriceStep

\* The price step run_once reads from get_steps().  BitMartAdapter and
\* P2BAdapter return the literal 1e-8; "base" is an adapter of the BaseAdapter
\* interface whose venue reports the step, any number.
get_steps_outcomes(ad) == IF ad = "base" THEN StepSet ELSE {get_steps(ad)}

\* create_limit: "ok" the venue accepts the order, "none" the request fails or
\* is rejected (each adapter catches and returns None), "dry" dry-run mode.
create_limit_outcomes(dry) == IF dry THEN {"dry"} ELSE {"ok", "none"}

\* The identifier create_limit returns.
create_limit_return(ad, outcome, stamp) ==
  CASE outcome = "ok" -> Some(stamp)
    [] outcome = "none" -> None
    [] outcome = "dry" ->
         IF ad = "bitmart" THEN Some(DryStamp(stamp)) ELSE Some(DryLiteral)

\* fetch_open_orders: [] in dry-run mode and when the request fails.
fetch_open_orders(ad, dry, venue, ok) ==
  IF dry \/ ~ok THEN {} ELSE {[id |-> Some(o)] : o \in venue}

\* current_ids = {str(o.get("id")) for o in open_orders if o.get("id")}
current_ids(open_orders) ==
  {o.id[1] : o \in {r \in open_orders : r.id # None}}

to_cancel_All(cur, new_order_ids) == cur

\* Only the bot's own orders are cancelled.
to_cancel_OwnOnly(cur, new_order_ids) == (cur \ new_order_ids) \ ForeignOrders

to_cancel(cur, new_order_ids) == cur \ new_order_ids

\* The canceller is never invoked.
should_cancel_Never(stale) == FALSE

should_cancel(stale) == stale # {}

\* ------------------------------------------------------------------------
\* runner.py / bitmart_adapter.py: the order of a cycle's steps
\* ------------------------------------------------------------------------
\* Lines 38 and 41-42 of run_once.
btc_price_or_fallback_Zero(f) == IF f.raised THEN 0 ELSE f.value

btc_price_or_fallback(f) == IF f.raised THEN FallbackBtc ELSE f.value

mid_price_invalid_Negative(mid_price) == mid_price < 0

mid_price_invalid(mid_price) == mid_price <= 0

\* The statements of run_once after the abort check, in program order.
run_once_order_CleanupFirst ==
  <<"fetch_info", "build", "cleanup", "buy", "sell", "report", "done">>

run_once_order ==
  <<"fetch_info", "build", "buy", "sell", "cleanup", "report", "done">>

\* STEP 1 and STEP 2 of refresh_orders.
refresh_orders_order == <<"buy", "sell", "cleanup", "done">>

PhaseAfter(order, pc) ==
  order[(CHOOSE k \in 1..(Len(order) - 1) : order[k] = pc) + 1]

\* ------------------------------------------------------------------------
\* State
\* ------------------------------------------------------------------------
VARIABLES
  adapter,      \* which adapter class the venue's adapter is
  dry_run,      \* adapter.dry_run
  cycle,        \* cycles started so far for this venue
  prev_ids,     \* main's prev_ids entry of the venue: None until first stored
  ro,           \* the locals of the cycle in progress (run_once / refresh_orders)
  calls,        \* order calls the cycle made on the adapter, in order
  venue_open,   \* identifiers of the bot's orders resting on the venue
  next_id,      \* next identifier the venue hands out (and the dry-run stamp)
  result,       \* what the last finished cycle returned, None if it raised
  start_open,   \* venue_open when the cycle in progress started
  RUNNING,      \* main.RUNNING
  adapters,     \* main's list of connected adapters
  main,         \* main's position in its loop: pc, index into adapters, tick
  mlog,         \* events of the scheduling loop, in order
  bc,           \* the locals of _cancel_in_batches
  requests,     \* requests _cancel_in_batches sent, in order
  cx,           \* the locals of an adapter's cancel_orders_by_ids
  fx            \* the arguments and the result of one call of a helper

cycle_vars == <<cycle, ro, calls, venue_open, next_id, result, start_open>>
main_vars == <<RUNNING, adapters, main, mlog>>
cancel_vars == <<bc, requests, cx>>
fn_vars == <<fx>>
vars == <<adapter, dry_run, prev_ids, cycle_vars, main_vars, cancel_vars, fn_vars>>

IdleMain == [pc |-> "while", ad |-> 0, tick |-> 0]

IdleCancel ==
  [pc |-> "idle", run |-> 0, open_before |-> {},
   order_ids |-> <<>>, batch_size |-> None,
   remaining |-> <<>>, chunk_size |-> 0, i |-> 0,
   batch |-> <<>>, todo |-> <<>>, cancelled |-> 0]

\* The scheduler and the canceller at rest.
MainAtRest ==
  /\ RUNNING = TRUE
  /\ adapters = <<>>
  /\ main = IdleMain
  /\ mlog = <<>>

\* cancel_orders_by_ids(ids) with ids = [1, ..., n]: k the position in the
\* list, attempt the retry counter, named the identifiers some request named,
\* singles the individual requests sent for identifier k, max_singles and
\* max_bulks the most requests of either kind one identifier was named in.
IdleCx ==
  [pc |-> "idle", n |-> 0, k |-> 0, attempt |-> 0, named |-> {},
   singles |-> 0, max_singles |-> 0, max_bulks |-> 0, last |-> "none"]

\* No helper has been called.
IdleFx == [pc |-> "idle"]

CancelAtRest ==
  /\ bc = IdleCancel
  /\ requests = <<>>
  /\ cx = IdleCx
  /\ fx = IdleFx

IdleFrame ==
  [proc |-> "none", pc |-> "idle", arg |-> None, prev_cycle_ids |-> {},
   btc_price |-> 0,
   btc_fetch |-> "none", mid_price |-> 0, price_step |-> None, tick |-> 0,
   best_bid |-> None, best_ask |-> None, depth |-> 0,
   buy_prices |-> <<>>, sell_prices |-> <<>>, i |-> 0,
   new_order_ids |-> {}, attempted |-> 0, rejected |-> 0]

\* No cycle has run: nothing stored, nothing resting on the venue.
CycleAtRest ==
  /\ cycle = 0
  /\ prev_ids = [a \in VenueKeys |-> None]
  /\ ro = IdleFrame
  /\ calls = <<>>
  /\ venue_open = {}
  /\ next_id = 1
  /\ result = None
  /\ start_open = {}

Init ==
  /\ adapter \in Adapters
  /\ dry_run \in BOOLEAN
  /\ CycleAtRest
  /\ MainAtRest
  /\ CancelAtRest

\* A cycle is over: run_once returned, aborted or raised.
Finished(pc) == pc \in {"idle", "done", "aborted", "raised"}

CreateCall(side, price, oid) ==
  [op |-> "create_limit", side |-> side, price |-> price, ids |-> {}, oid |-> oid]
FetchCall(ids) ==
  [op |-> "fetch_open_orders", side |-> "", price |-> 0, ids |-> ids, oid |-> None]
CancelCall(ids) ==
  [op |-> "cancel_orders_by_ids", side |-> "", price |-> 0, ids |-> ids, oid |-> None]

\* ------------------------------------------------------------------------
\* runner.run_once, called by main as run_once(ad, prev_ids.get(key))
\* ------------------------------------------------------------------------
\* Lines 30-44: default argument, anchor price with fallback, reference price,
\* abort on a non-positive one.  main stores what run_once returns.
RunOnceFetchBtc ==
  /\ Finished(ro.pc)
  /\ cycle < MaxCycles
  /\ \E f \in fetch_btc_last_outcomes(adapter) :
       LET prev_cycle_ids == IF prev_ids[adapter] = None THEN {}
                             ELSE prev_ids[adapter][1]
           btc_price == btc_price_or_fallback(f)
           mid_price == btc_price * reference_multiplier
           frame == [IdleFrame EXCEPT !.proc = "run_once",
                                      !.arg = prev_ids[adapter],
                                      !.prev_cycle_ids = prev_cycle_ids,
                                      !.btc_price = btc_price,
                                      !.btc_fetch = IF f.raised THEN "raised" ELSE "ok",
                                      !.mid_price = mid_price]
       IN  IF mid_price_invalid(mid_price)
           THEN /\ ro' = [frame EXCEPT !.pc = "aborted"]
                /\ result' = Some(prev_cycle_ids)
                /\ prev_ids' = [prev_ids EXCEPT ![adapter] = Some(prev_cycle_ids)]
           ELSE /\ ro' = [frame EXCEPT !.pc = run_once_order[1]]
                /\ result' = None
                /\ UNCHANGED prev_ids
  /\ cycle' = cycle + 1
  /\ calls' = <<>>
  /\ start_open' = venue_open
  /\ UNCHANGED <<adapter, dry_run, venue_open, next_id>>
  /\ UNCHANGED <<main_vars, cancel_vars, fn_vars>>

\* Lines 46-50: limits, steps, tick, best quotes.  No try block: an exception
\* of fetch_best_quotes leaves run_once, and main's except clause logs it.
RunOnceFetchInfo ==
  /\ ro.proc = "run_once" /\ ro.pc = "fetch_info"
  /\ \E price_step \in get_steps_outcomes(adapter),
        q \in fetch_best_quotes_outcomes(adapter) :
       IF q.raised
       THEN ro' = [ro EXCEPT !.pc = "raised", !.price_step = Some(price_step)]
       ELSE ro' = [ro EXCEPT !.pc = PhaseAfter(run_once_order, "fetch_info"),
                             !.price_step = Some(price_step),
                             !.tick = Max(price_step, MinTick),
                             !.best_bid = q.value[1],
                             !.best_ask = q.value[2]]
  /\ UNCHANGED <<adapter, dry_run, cycle, prev_ids, calls, venue_open, next_id,
                 result, start_open>>
  /\ UNCHANGED <<main_vars, cancel_vars, fn_vars>>

\* The accumulator seeded with the identifiers of the cycle before.
initial_new_order_ids_Prev(prev_cycle_ids) == prev_cycle_ids

\* Line 63: new_order_ids starts empty in every cycle.
initial_new_order_ids(prev_cycle_ids) == {}

\* A draw that can exceed its upper end.
randint_Wide(a, b) == a..(b + 1)

\* random.randint(a, b): any whole number from a to b, both included.
randint(a, b) == a..b

\* Lines 52-65: the depth, the two ladders, the counters.
RunOnceBuild ==
  /\ ro.proc = "run_once" /\ ro.pc = "build"
  /\ \E depth \in randint(depth_min, depth_max) :
       \E gb \in SeqsOf(GapSet, depth), gs \in SeqsOf(GapSet, depth) :
         ro' = [ro EXCEPT !.pc = PhaseAfter(run_once_order, "build"),
                          !.i = 1, !.depth = depth,
                          !.buy_prices = build_ladder(ro.mid_price, "buy", depth, gb),
                          !.sell_prices = build_ladder(ro.mid_price, "sell", depth, gs),
                          !.new_order_ids = initial_new_order_ids(ro.prev_cycle_ids),
                          !.attempted = 0, !.rejected = 0]
  /\ UNCHANGED <<adapter, dry_run, cycle, prev_ids, calls, venue_open, next_id,
                 result, start_open>>
  /\ UNCHANGED <<main_vars, cancel_vars, fn_vars>>

\* A rejected level ends the loop as well: `break` where lines 84 and 103
\* have `continue`.
loop_ends_after_Break(i, depth, rejected) == rejected \/ i >= depth

\* `continue` on lines 84, 103 and 109, the except clause on lines 122-124:
\* whatever happened to level i, the for loop ends with the last level only.
loop_ends_after(i, depth, rejected) == i >= depth

\* One iteration of a placement loop: `price` is the sanitized price or None.
\* Lines 77-84 / 96-103 reject, lines 114-124 place.
PlaceLevel(side, price, pc_after) ==
  LET last == loop_ends_after(ro.i, ro.depth, price = None)
      moved == [ro EXCEPT !.i = IF last THEN 1 ELSE ro.i + 1,
                          !.pc = IF last THEN pc_after ELSE ro.pc]
  IN  IF price = None
      THEN /\ ro' = [moved EXCEPT !.rejected = ro.rejected + 1]
           /\ UNCHANGED <<calls, venue_open, next_id>>
      ELSE \E o \in create_limit_outcomes(dry_run) :
             LET oid == create_limit_return(adapter, o, next_id)
             IN  /\ calls' = Append(calls, CreateCall(side, price[1], oid))
                 /\ venue_open' = IF o = "ok" THEN venue_open \cup {next_id}
                                  ELSE venue_open
                 /\ next_id' = IF o = "none" THEN next_id ELSE next_id + 1
                 /\ ro' = [moved EXCEPT
                             !.attempted = ro.attempted + 1,
                             !.new_order_ids =
                                IF oid # None /\ oid # Some(DryLiteral)
                                THEN ro.new_order_ids \cup {oid[1]}
                                ELSE ro.new_order_ids,
                             !.rejected =
                                IF oid = None THEN ro.rejected + 1 ELSE ro.rejected]

\* Lines 69-124.
RunOnceBuy ==
  /\ ro.proc = "run_once" /\ ro.pc = "buy"
  /\ PlaceLevel("buy",
                buy_price(adapter, ro.buy_prices[ro.i], ro.mid_price, ro.best_ask, ro.tick),
                PhaseAfter(run_once_order, "buy"))
  /\ UNCHANGED <<adapter, dry_run, cycle, prev_ids, result, start_open>>
  /\ UNCHANGED <<main_vars, cancel_vars, fn_vars>>

\* Lines 128-183.
RunOnceSell ==
  /\ ro.proc = "run_once" /\ ro.pc = "sell"
  /\ PlaceLevel("sell",
                sell_price(adapter, ro.sell_prices[ro.i], ro.mid_price, ro.best_bid, ro.tick),
                PhaseAfter(run_once_order, "sell"))
  /\ UNCHANGED <<adapter, dry_run, cycle, prev_ids, result, start_open>>
  /\ UNCHANGED <<main_vars, cancel_vars, fn_vars>>

\* The reconciliation both entry points share: fetch the open orders, cancel
\* the ones not placed in this cycle.  A cancel request may fail for any of the
\* identifiers, so the venue closes any subset of them.
Reconcile(new_ids) ==
  \E ok \in BOOLEAN :
    LET open_orders == fetch_open_orders(adapter, dry_run, venue_open, ok)
        stale == to_cancel(current_ids(open_orders), new_ids)
    IN  IF should_cancel(stale)
        THEN \E closed \in SUBSET stale :
               /\ calls' = calls \o <<FetchCall(current_ids(open_orders)), CancelCall(stale)>>
               /\ venue_open' = venue_open \ closed
        ELSE /\ calls' = Append(calls, FetchCall(current_ids(open_orders)))
             /\ UNCHANGED venue_open

\* Lines 185-196.
RunOnceCleanup ==
  /\ ro.proc = "run_once" /\ ro.pc = "cleanup"
  /\ IF ~dry_run
     THEN Reconcile(ro.new_order_ids)
     ELSE UNCHANGED <<calls, venue_open>>
  /\ ro' = [ro EXCEPT !.pc = PhaseAfter(run_once_order, "cleanup")]
  /\ UNCHANGED <<adapter, dry_run, cycle, prev_ids, next_id, result, start_open>>
  /\ UNCHANGED <<main_vars, cancel_vars, fn_vars>>

\* Lines 198-205, and main.py line 88 storing the returned set.
RunOnceReturn ==
  /\ ro.proc = "run_once" /\ ro.pc = "report"
  /\ ro' = [ro EXCEPT !.pc = PhaseAfter(run_once_order, "report")]
  /\ result' = Some(ro.new_order_ids)
  /\ prev_ids' = [prev_ids EXCEPT ![adapter] = Some(ro.new_order_ids)]
  /\ UNCHANGED <<adapter, dry_run, cycle, calls, venue_open, next_id, start_open>>
  /\ UNCHANGED <<main_vars, cancel_vars, fn_vars>>

\* ------------------------------------------------------------------------
\* BitMartAdapter.refresh_orders(mid, depth, ...)
\* ------------------------------------------------------------------------
\* guard_price, lines 187-194.
guard_price(px, side, best_bid, best_ask, tick, price_step) ==
  IF side = "buy" /\ best_ask # None
  THEN Max(price_step, Min(px, best_ask[1] - refresh_maker_guard_ticks * tick))
  ELSE IF side = "sell" /\ best_bid # None
  THEN Max(price_step, Max(px, best_bid[1] + refresh_maker_guard_ticks * tick))
  ELSE Max(price_step, px)

\* Lines 166-199: limits, quotes (no try block), steps, ladders, new_ids.
RefreshStart ==
  /\ Finished(ro.pc)
  /\ adapter = "bitmart"
  /\ cycle < MaxCycles
  /\ \E q \in fetch_best_quotes_outcomes(adapter) :
       IF q.raised
       THEN ro' = [IdleFrame EXCEPT !.proc = "refresh_orders", !.pc = "raised"]
       ELSE \E mid \in RefreshMidSet, depth \in depth_min..depth_max :
              \E gb \in SeqsOf(GapSet, depth), gs \in SeqsOf(GapSet, depth) :
                ro' = [IdleFrame EXCEPT
                         !.proc = "refresh_orders",
                         !.pc = refresh_orders_order[1], !.i = 1,
                         !.mid_price = mid, !.depth = depth,
                         !.tick = get_steps(adapter),
                         !.best_bid = q.value[1], !.best_ask = q.value[2],
                         !.buy_prices = build_ladder(mid, "buy", depth, gb),
                         !.sell_prices = build_ladder(mid, "sell", depth, gs)]
  /\ cycle' = cycle + 1
  /\ calls' = <<>>
  /\ result' = None
  /\ start_open' = venue_open
  /\ UNCHANGED <<adapter, dry_run, prev_ids, venue_open, next_id>>
  /\ UNCHANGED <<main_vars, cancel_vars, fn_vars>>

\* One iteration of lines 201-209 / 211-219.
RefreshPlace(side, pc_after) ==
  LET last == ro.i >= ro.depth
      px == IF side = "buy" THEN ro.buy_prices[ro.i] ELSE ro.sell_prices[ro.i]
      px_adj == guard_price(price_to_precision(adapter, px), side,
                            ro.best_bid, ro.best_ask, ro.tick, get_steps(adapter))
  IN  \E o \in create_limit_outcomes(dry_run) :
        LET oid == create_limit_return(adapter, o, next_id)
        IN  /\ calls' = Append(calls, CreateCall(side, px_adj, oid))
            /\ venue_open' = IF o = "ok" THEN venue_open \cup {next_id}
                             ELSE venue_open
            /\ next_id' = IF o = "none" THEN next_id ELSE next_id + 1
            /\ ro' = [ro EXCEPT
                        !.i = IF last THEN 1 ELSE ro.i + 1,
                        !.pc = IF last THEN pc_after ELSE ro.pc,
                        !.attempted = IF oid # None THEN ro.attempted + 1
                                      ELSE ro.attempted,
                        !.new_order_ids = IF oid # None
                                          THEN ro.new_order_ids \cup {oid[1]}
                                          ELSE ro.new_order_ids]

RefreshBuy ==
  /\ ro.proc = "refresh_orders" /\ ro.pc = "buy"
  /\ RefreshPlace("buy", PhaseAfter(refresh_orders_order, "buy"))
  /\ UNCHANGED <<adapter, dry_run, cycle, prev_ids, result, start_open>>
  /\ UNCHANGED <<main_vars, cancel_vars, fn_vars>>

RefreshSell ==
  /\ ro.proc = "refresh_orders" /\ ro.pc = "sell"
  /\ RefreshPlace("sell", PhaseAfter(refresh_orders_order, "sell"))
  /\ UNCHANGED <<adapter, dry_run, cycle, prev_ids, result, start_open>>
  /\ UNCHANGED <<main_vars, cancel_vars, fn_vars>>

\* Lines 225-239: reconcile, return new_ids.
RefreshCleanup ==
  /\ ro.proc = "refresh_orders" /\ ro.pc = "cleanup"
  /\ Reconcile(ro.new_order_ids)
  /\ ro' = [ro EXCEPT !.pc = PhaseAfter(refresh_orders_order, "cleanup")]
  /\ result' = Some(ro.new_order_ids)
  /\ UNCHANGED <<adapter, dry_run, cycle, prev_ids, next_id, start_open>>
  /\ UNCHANGED <<main_vars, cancel_vars, fn_vars>>

Next ==
  \/ RunOnceFetchBtc
  \/ RunOnceFetchInfo
  \/ RunOnceBuild
  \/ RunOnceBuy
  \/ RunOnceSell
  \/ RunOnceCleanup
  \/ RunOnceReturn
  \/ RefreshStart
  \/ RefreshBuy
  \/ RefreshSell
  \/ RefreshCleanup

Spec == Init /\ [][Next]_vars

\* ------------------------------------------------------------------------
\* Properties of one cycle (specification Spec)
\* ------------------------------------------------------------------------
CreateIdx == {k \in 1..Len(calls) : calls[k].op = "create_limit"}
FetchIdx == {k \in 1..Len(calls) : calls[k].op = "fetch_open_orders"}
CancelIdx == {k \in 1..Len(calls) : calls[k].op = "cancel_orders_by_ids"}

\* N: the identifiers the create_limit calls of the cycle returned.
PlacedIds == {calls[k].oid[1] : k \in {j \in CreateIdx : calls[j].oid # None}}

\* Levels the two price checks turned down (not the ones the venue refused).
PriceRejected ==
  ro.rejected - Cardinality({k \in CreateIdx : calls[k].oid = None})

\* C1: in run_once every create_limit('buy', p, q) has p strictly below the
\* cycle's mid_price and every create_limit('sell', p, q) has p strictly above
\* it; no order is submitted at mid_price itself.
C1_StrictSides ==
  ro.proc = "run_once" =>
    \A k \in CreateIdx :
      /\ calls[k].side = "buy" => calls[k].price < ro.mid_price
      /\ calls[k].side = "sell" => calls[k].price > ro.mid_price

\* A finished cycle in which the price checks turned a level down and a sell
\* order was submitted.
C1_Witness ==
  /\ ro.proc = "run_once" /\ ro.pc = "done"
  /\ PriceRejected > 0
  /\ \E k \in CreateIdx : calls[k].side = "sell"

\* C2: within a cycle (run_once or refresh_orders) every create_limit call
\* comes before the fetch_open_orders call and before any cancel call.
C2_PlaceBeforeReconcile ==
  \A j \in FetchIdx \cup CancelIdx : \A k \in CreateIdx : k < j

\* A run_once cycle that placed orders and then cancelled stale ones.
C2_Witness ==
  /\ ro.proc = "run_once"
  /\ CreateIdx # {} /\ FetchIdx # {} /\ CancelIdx # {}

\* C3: the canceller is invoked with exactly O \ N, O being the identifiers
\* the venue reported and N the identifiers placed in the cycle; it is not
\* invoked when O \ N is empty; no identifier of N is ever passed to it.
C3_CancelExactlyStale ==
  /\ Cardinality(FetchIdx) <= 1 /\ Cardinality(CancelIdx) <= 1
  /\ \A x \in CancelIdx :
       /\ calls[x].ids # {}
       /\ calls[x].ids \cap PlacedIds = {}
       /\ \E f \in FetchIdx : f < x /\ calls[x].ids = calls[f].ids \ PlacedIds
  /\ ro.pc \in {"report", "done"} =>
       \A f \in FetchIdx : calls[f].ids \ PlacedIds # {} => CancelIdx # {}

\* The venue reported orders of this cycle together with older ones, and the
\* canceller got the older ones.
C3_Witness ==
  \E f \in FetchIdx, x \in CancelIdx :
    /\ calls[f].ids \cap PlacedIds # {}
    /\ calls[x].ids = calls[f].ids \ PlacedIds

\* C4: if the venue holds a resting order of the bot when a cycle starts, and
\* nothing is filled or expires, it holds one at every point of the cycle and
\* at its end.  (The model has no fills and no expiry.)
C4_NoLiquidityGap ==
  (ro.proc = "run_once" /\ start_open # {}) => venue_open # {}

\* C5: a reference price <= 0 aborts run_once, which returns the set it was
\* given (the empty set for None) and calls neither create_limit nor
\* fetch_open_orders nor cancel_orders_by_ids, leaving the venue as it was.
C5_AbortKeepsPrevious ==
  /\ (ro.proc = "run_once" /\ ro.mid_price <= 0) => ro.pc = "aborted"
  /\ ro.pc = "aborted" =>
       /\ ro.btc_price * reference_multiplier <= 0
       /\ result = Some(IF ro.arg = None THEN {} ELSE ro.arg[1])
       /\ prev_ids[adapter] = result
       /\ calls = <<>>
       /\ venue_open = start_open

\* An aborted cycle that was given a non-empty set while orders rest on the
\* venue.
C5_Witness ==
  /\ ro.pc = "aborted"
  /\ ro.arg # None /\ ro.arg # Some({})
  /\ venue_open # {}

\* C6: when fetch_btc_last raises, run_once takes 92000 as the anchor price,
\* gets a strictly positive reference price and does not abort; it goes on to
\* the quotes, the ladder, the placements and the reconciliation.
C6_FallbackAnchor ==
  (ro.proc = "run_once" /\ ro.btc_fetch = "raised") =>
    /\ ro.btc_price = FallbackBtc
    /\ ro.mid_price = FallbackBtc * reference_multiplier
    /\ ro.mid_price > 0
    /\ ro.pc # "aborted"
    /\ ro.pc \in {"buy", "sell", "cleanup", "report", "done"} =>
         /\ ro.depth \in depth_min..depth_max
         /\ Len(ro.buy_prices) = ro.depth /\ Len(ro.sell_prices) = ro.depth
    /\ ro.pc \in {"report", "done"} =>
         /\ ro.attempted + PriceRejected = 2 * ro.depth
         /\ ~dry_run => FetchIdx # {}

\* A cycle on the fallback anchor that placed an order, cancelled stale ones
\* and returned.
C6_Witness ==
  /\ ro.proc = "run_once" /\ ro.btc_fetch = "raised" /\ ro.pc = "done"
  /\ PlacedIds # {} /\ CancelIdx # {}

\* C7: no exception leaves run_once; whatever adapter call fails, run_once
\* returns a set of order ids.
C7_NoExceptionEscapes ==
  ro.proc = "run_once" => ro.pc # "raised"

\* ------------------------------------------------------------------------
\* main.py: the scheduling loop (lines 80-95) and the signal handler
\* ------------------------------------------------------------------------
MaxTicks == 2

\* The adapters list the start-up loop of main leaves: the connected venues,
\* each once, in configuration order or any other.
AdapterLists ==
  {<<>>} \cup {<<a>> : a \in Adapters}
         \cup {p \in Adapters \X Adapters : p[1] # p[2]}

\* What main sees of run_once(ad, prev): it raises (where the cycle above can
\* leave run_once by an exception) or returns a set of order ids.
ReturnSets == {{}, {1}, {2}}

run_once_outcomes(ad) ==
  {[raised |-> FALSE, value |-> S] : S \in ReturnSets}
    \cup {[raised |-> TRUE, value |-> {}] :
            q \in {o \in fetch_best_quotes_outcomes(ad) : o.raised}}

\* The loop test ignores the flag.
loop_continues_Forever(running) == TRUE

\* Line 82: `while RUNNING`.
loop_continues(running) == running

\* Lines 87-90: the try statement is the body of the for loop, so after the
\* except clause the loop goes to the next adapter.
after_raise_LeavesLoop(ad, n) == n + 1

after_raise(ad, n) == ad + 1

Event(ev, key) == [tick |-> main.tick, ev |-> ev, key |-> key]

InitMain ==
  /\ adapter = "bitmart"
  /\ dry_run = FALSE
  /\ CycleAtRest
  /\ RUNNING = TRUE
  /\ adapters \in AdapterLists
  /\ main = IdleMain
  /\ mlog = <<>>
  /\ CancelAtRest

\* stop(), lines 29-32, run by SIGINT or SIGTERM between any two steps.
Stop ==
  /\ RUNNING
  /\ main.pc # "stopped"
  /\ RUNNING' = FALSE
  /\ mlog' = Append(mlog, Event("stop", ""))
  /\ UNCHANGED <<adapters, main>>
  /\ UNCHANGED <<adapter, dry_run, prev_ids, cycle_vars, cancel_vars, fn_vars>>

\* Lines 82-83 and 95: the loop test; a new tick, or "Bot stopped cleanly."
MainWhile ==
  /\ main.pc = "while"
  /\ loop_continues(RUNNING) => main.tick < MaxTicks
  /\ main' = IF loop_continues(RUNNING)
             THEN [pc |-> "for", ad |-> 1, tick |-> main.tick + 1]
             ELSE [main EXCEPT !.pc = "stopped"]
  /\ UNCHANGED <<RUNNING, adapters, mlog>>
  /\ UNCHANGED <<adapter, dry_run, prev_ids, cycle_vars, cancel_vars, fn_vars>>

\* Lines 85-88: the next adapter of the tick; run_once is called.
MainCall ==
  /\ main.pc = "for"
  /\ main.ad <= Len(adapters)
  /\ main' = [main EXCEPT !.pc = "run_once"]
  /\ mlog' = Append(mlog, Event("call", adapters[main.ad]))
  /\ UNCHANGED <<RUNNING, adapters>>
  /\ UNCHANGED <<adapter, dry_run, prev_ids, cycle_vars, cancel_vars, fn_vars>>

\* Lines 88-90: run_once returns and its set is stored, or it raises and the
\* exception is logged.
MainRunOnce ==
  /\ main.pc = "run_once"
  /\ LET key == adapters[main.ad]
     IN  \E o \in run_once_outcomes(key) :
           IF o.raised
           THEN /\ mlog' = Append(mlog, Event("raise", key))
                /\ main' = [main EXCEPT !.pc = "for",
                                        !.ad = after_raise(main.ad, Len(adapters))]
                /\ UNCHANGED prev_ids
           ELSE /\ mlog' = Append(mlog, Event("return", key))
                /\ main' = [main EXCEPT !.pc = "for", !.ad = main.ad + 1]
                /\ prev_ids' = [prev_ids EXCEPT ![key] = Some(o.value)]
  /\ UNCHANGED <<RUNNING, adapters>>
  /\ UNCHANGED <<adapter, dry_run, cycle_vars, cancel_vars, fn_vars>>

\* Lines 92-93: the for loop is over, the tick sleeps.
MainSleep ==
  /\ main.pc = "for"
  /\ main.ad > Len(adapters)
  /\ main' = [main EXCEPT !.pc = "sleep"]
  /\ UNCHANGED <<RUNNING, adapters, mlog>>
  /\ UNCHANGED <<adapter, dry_run, prev_ids, cycle_vars, cancel_vars, fn_vars>>

\* time.sleep returns; back to the loop test.
MainWake ==
  /\ main.pc = "sleep"
  /\ main' = [main EXCEPT !.pc = "while"]
  /\ UNCHANGED <<RUNNING, adapters, mlog>>
  /\ UNCHANGED <<adapter, dry_run, prev_ids, cycle_vars, cancel_vars, fn_vars>>

NextMain ==
  \/ Stop
  \/ MainWhile
  \/ MainCall
  \/ MainRunOnce
  \/ MainSleep
  \/ MainWake

SpecMain == InitMain /\ [][NextMain]_vars

\* ------------------------------------------------------------------------
\* Properties of the scheduling loop (specification SpecMain)
\* ------------------------------------------------------------------------
RECURSIVE CallsOfTick(_, _)
\* The venues run_once was called for in tick t, in order, among the first n
\* events.
CallsOfTick(t, n) ==
  IF n = 0 THEN <<>>
  ELSE IF mlog[n].ev = "call" /\ mlog[n].tick = t
       THEN Append(CallsOfTick(t, n - 1), mlog[n].key)
       ELSE CallsOfTick(t, n - 1)

AdapterKeys == [k \in 1..Len(adapters) |-> adapters[k]]

\* Ticks whose for loop is over.
TicksOver ==
  {t \in 1..main.tick : t < main.tick \/ main.pc \in {"sleep", "while", "stopped"}}

\* C8: when run_once raises for a venue, run_once is still called for every
\* later venue of the tick, no stored prev_ids entry changes, and the venue's
\* run_once is called again on the next tick.
C8_RaiseIsolated ==
  /\ [](\A t \in TicksOver : CallsOfTick(t, Len(mlog)) = AdapterKeys)
  /\ [][(Len(mlog') = Len(mlog) + 1 /\ mlog'[Len(mlog')].ev = "raise")
          => /\ prev_ids' = prev_ids
             /\ main'.pc = "for"
             /\ main'.ad = main.ad + 1
             /\ main'.tick = main.tick]_vars

\* run_once raised for the first venue of the first tick, was then called for
\* the second venue, and was called for the failing venue again in tick 2.
C8_Witness ==
  \E i, j, k \in 1..Len(mlog) :
    /\ i < j /\ j < k
    /\ mlog[i].ev = "raise" /\ mlog[i].tick = 1
    /\ mlog[j].ev = "call" /\ mlog[j].tick = 1 /\ mlog[j].key # mlog[i].key
    /\ mlog[k].ev = "call" /\ mlog[k].tick = 2 /\ mlog[k].key = mlog[i].key
    /\ prev_ids[mlog[j].key] # None

\* C9: once stop() has set RUNNING to false, no run_once invocation begins;
\* the scheduler completes the cycle in flight and leaves the loop.
C9_NoInvocationAfterStop ==
  \A j, k \in 1..Len(mlog) :
    (j < k /\ mlog[j].ev = "stop") => mlog[k].ev # "call"

\* ------------------------------------------------------------------------
\* helpers/batch_cancel.py: BatchCancelMixin._cancel_in_batches
\* ------------------------------------------------------------------------
MaxOrderIds == 3

BATCH_SIZE == 50

\* The identifiers handed in are strings already (run_once builds them with
\* str), so str(oid) leaves them as they are; they are numbered here.
OrderIdSet == {1, 2, 3}

OrderIdLists == UNION {SeqsOf(OrderIdSet, n) : n \in 0..MaxOrderIds}

BatchSizes == {None, Some(0), Some(1), Some(2)}

SeqRange(s) == {s[k] : k \in 1..Len(s)}

\* Line 43: list({str(oid) for oid in order_ids}); a set has no order of its
\* own, so any order of the distinct identifiers may come out.
dedupe_KeepAll(order_ids) == {order_ids}

dedupe(order_ids) ==
  LET S == SeqRange(order_ids)
  IN  {r \in SeqsOf(S, Cardinality(S)) : SeqRange(r) = S}

\* Line 45: batch_size or self.BATCH_SIZE.
chunk_size_of(batch_size) ==
  IF batch_size = None \/ batch_size = Some(0) THEN BATCH_SIZE ELSE batch_size[1]

\* What self._request does: it raises, or returns a body with a code.
RequestOutcomes ==
  {"raised", "code 1000", "code '1000'", "code 0", "code 30000", "no code"}

\* Line 54: resp.get("code") in (1000, "1000", 0).
bulk_succeeded(resp) == resp \in {"code 1000", "code '1000'", "code 0"}

\* Line 49: remaining[i:i + chunk_size], with i counted from 1.
batch_at(remaining, i, chunk_size) ==
  SubSeq(remaining, i, Min(i + chunk_size - 1, Len(remaining)))

\* Line 60: `for oid in batch`.
fallback_ids_Remaining(remaining, batch) == remaining

fallback_ids(remaining, batch) == batch

CancelRequest(kind, ids, at, resp) ==
  [kind |-> kind, ids |-> ids, at |-> at, resp |-> resp]

\* An individual request: line 62 does not read the body, so what counts is
\* whether _request raises and whether the venue accepted the cancel.
SingleOutcomes == {"raised", "code 1000", "code 30000"}

\* BitMartAdapter.cancel_orders_by_ids, lines 103-107: the identifiers the
\* request body names ("order_ids": batch).
payload_func_WholeBook(batch) == <<1, 2, 3>>

payload_func(batch) == batch

\* The venue's side of a cancel request: an answer with a success code means
\* it closed the orders named that were open; a request that raised (a
\* timeout, a broken connection) was processed or not; any other answer
\* means it closed nothing.
venue_closes(open, named, resp, processed) ==
  IF bulk_succeeded(resp) \/ (resp = "raised" /\ processed)
  THEN open \ SeqRange(named) ELSE open

\* Every order of OrderIdSet rests on the venue when the canceller is called.
InitCancel ==
  /\ adapter = "bitmart"
  /\ dry_run \in BOOLEAN
  /\ cycle = 0
  /\ prev_ids = [a \in VenueKeys |-> None]
  /\ ro = IdleFrame
  /\ calls = <<>>
  /\ venue_open = OrderIdSet
  /\ next_id = 1
  /\ result = None
  /\ start_open = {}
  /\ MainAtRest
  /\ CancelAtRest

\* The step to the next chunk, or out of the loop of line 48.
NextChunk(frame) ==
  LET i == frame.i + frame.chunk_size
  IN  [frame EXCEPT !.i = i, !.todo = <<>>,
                    !.pc = IF i > Len(frame.remaining) THEN "done" ELSE "batch"]

\* Lines 40-45: nothing to do in dry-run or without identifiers; otherwise
\* dedupe and fix the chunk size.
CancelStart ==
  /\ bc.pc = "idle"
  /\ \E order_ids \in OrderIdLists, batch_size \in BatchSizes :
       IF dry_run \/ order_ids = <<>>
       THEN bc' = [IdleCancel EXCEPT !.pc = "done", !.run = 1,
                                     !.open_before = venue_open,
                                     !.order_ids = order_ids,
                                     !.batch_size = batch_size]
       ELSE \E remaining \in dedupe(order_ids) :
              bc' = [IdleCancel EXCEPT !.pc = "batch", !.run = 1,
                                       !.open_before = venue_open,
                                       !.order_ids = order_ids,
                                       !.batch_size = batch_size,
                                       !.remaining = remaining,
                                       !.chunk_size = chunk_size_of(batch_size),
                                       !.i = 1]
  /\ requests' = <<>>
  /\ UNCHANGED <<adapter, dry_run, prev_ids, cycle_vars, main_vars, fn_vars>>
  /\ UNCHANGED cx

\* Lines 48-59: one chunk, one bulk request; success counts the chunk, a
\* raise or another code starts the fallback.
CancelBatch ==
  /\ bc.pc = "batch"
  /\ LET batch == batch_at(bc.remaining, bc.i, bc.chunk_size)
     IN  \E resp \in RequestOutcomes, processed \in BOOLEAN :
           /\ requests' = Append(requests,
                                 CancelRequest("bulk", payload_func(batch), bc.i, resp))
           /\ venue_open' = venue_closes(venue_open, payload_func(batch), resp, processed)
           /\ bc' = IF bulk_succeeded(resp)
                    THEN NextChunk([bc EXCEPT !.batch = batch,
                                              !.cancelled = bc.cancelled + Len(batch)])
                    ELSE [bc EXCEPT !.pc = "single", !.batch = batch,
                                    !.todo = fallback_ids(bc.remaining, batch)]
  /\ UNCHANGED <<adapter, dry_run, prev_ids, main_vars, fn_vars>>
  /\ UNCHANGED <<cycle, ro, calls, next_id, result, start_open>>
  /\ UNCHANGED cx

\* Lines 60-66: one identifier of the failed chunk, one request; a request
\* that raises is passed over.
CancelSingle ==
  /\ bc.pc = "single"
  /\ LET oid == Head(bc.todo)
         rest == Tail(bc.todo)
     IN  \E resp \in SingleOutcomes, processed \in BOOLEAN :
           LET counted == [bc EXCEPT !.todo = rest,
                                     !.cancelled = IF resp = "raised" THEN bc.cancelled
                                                   ELSE bc.cancelled + 1]
           IN  /\ requests' = Append(requests,
                                     CancelRequest("single", payload_func(<<oid>>),
                                                   bc.i, resp))
               /\ venue_open' = venue_closes(venue_open, payload_func(<<oid>>),
                                             resp, processed)
               /\ bc' = IF rest = <<>> THEN NextChunk(counted) ELSE counted
  /\ UNCHANGED <<adapter, dry_run, prev_ids, main_vars, fn_vars>>
  /\ UNCHANGED <<cycle, ro, calls, next_id, result, start_open>>
  /\ UNCHANGED cx

\* The caller invokes the method once more with the same identifiers, none of
\* which rests on the venue any more.
CancelAgain ==
  /\ bc.pc = "done"
  /\ bc.run = 1
  /\ SeqRange(bc.order_ids) \cap venue_open = {}
  /\ IF dry_run \/ bc.order_ids = <<>>
     THEN bc' = [IdleCancel EXCEPT !.pc = "done", !.run = 2,
                                   !.open_before = venue_open,
                                   !.order_ids = bc.order_ids,
                                   !.batch_size = bc.batch_size]
     ELSE \E remaining \in dedupe(bc.order_ids) :
            bc' = [IdleCancel EXCEPT !.pc = "batch", !.run = 2,
                                     !.open_before = venue_open,
                                     !.order_ids = bc.order_ids,
                                     !.batch_size = bc.batch_size,
                                     !.remaining = remaining,
                                     !.chunk_size = chunk_size_of(bc.batch_size),
                                     !.i = 1]
  /\ requests' = <<>>
  /\ UNCHANGED <<adapter, dry_run, prev_ids, cycle_vars, main_vars, fn_vars>>
  /\ UNCHANGED cx

NextCancel ==
  \/ CancelStart
  \/ CancelBatch
  \/ CancelSingle
  \/ CancelAgain

SpecCancel == InitCancel /\ [][NextCancel]_vars

\* ------------------------------------------------------------------------
\* Properties of the canceller (specification SpecCancel)
\* ------------------------------------------------------------------------
\* Where the chunks of `remaining` start.
ChunkStarts ==
  {o \in 1..Len(bc.remaining) : (o - 1) % bc.chunk_size = 0}

BulkAt(o) ==
  {k \in 1..Len(requests) : requests[k].kind = "bulk" /\ requests[k].at = o}

SingleFor(oid) ==
  {k \in 1..Len(requests) : requests[k].kind = "single" /\ requests[k].ids = <<oid>>}

ChunkOver(o) == o < bc.i

ChunkBegun(o) == o < bc.i \/ (o = bc.i /\ bc.pc = "single")

\* C10: one bulk request per chunk; if it raises or answers with a code that
\* is no success code, each identifier of that chunk, and none of another
\* chunk, goes into exactly one individual request; an individual request
\* that fails stops neither the other identifiers nor the other chunks.
C10_FallbackPerChunk ==
  /\ bc.pc \in {"idle", "batch", "single", "done"}
  /\ (bc.pc = "done" /\ bc.remaining # <<>>) => bc.i > Len(bc.remaining)
  /\ \A o \in ChunkStarts :
       LET chunk == batch_at(bc.remaining, o, bc.chunk_size)
       IN  /\ Cardinality(BulkAt(o)) = IF ChunkBegun(o) THEN 1 ELSE 0
           /\ \A k \in BulkAt(o) : requests[k].ids = chunk
           /\ \A oid \in SeqRange(chunk) :
                /\ Cardinality(SingleFor(oid)) <= 1
                /\ \A k \in SingleFor(oid) :
                     /\ requests[k].at = o
                     /\ \E b \in BulkAt(o) :
                          b < k /\ ~bulk_succeeded(requests[b].resp)
                /\ ChunkOver(o) =>
                     \A b \in BulkAt(o) :
                       Cardinality(SingleFor(oid)) =
                         IF bulk_succeeded(requests[b].resp) THEN 0 ELSE 1
  /\ \A k \in 1..Len(requests) :
       requests[k].at \in ChunkStarts
         /\ SeqRange(requests[k].ids) \subseteq SeqRange(bc.remaining)

\* Two chunks: the bulk request of the first was refused, the individual
\* request of its first identifier raised, the one of its second went
\* through, and the second chunk got its bulk request.
C10_Witness ==
  /\ bc.pc = "done"
  /\ Len(requests) >= 4
  /\ requests[1].kind = "bulk" /\ requests[1].resp = "code 30000"
  /\ requests[2].kind = "single" /\ requests[2].resp = "raised"
  /\ requests[3].kind = "single" /\ requests[3].resp # "raised"
  /\ requests[4].kind = "bulk" /\ requests[4].at > 1

\* The identifiers handed in that rested on the venue at the call.
OpenAtCall == SeqRange(bc.order_ids) \cap bc.open_before

\* C12: a second invocation on the same identifiers, all of them closed on
\* the venue by then, ends without an error and leaves the venue's open
\* orders as they were after the first invocation.
C12_SecondCallIdle ==
  (bc.run = 2 /\ OpenAtCall = {}) =>
    /\ venue_open = bc.open_before
    /\ bc.pc \in {"batch", "single", "done"}
    /\ \A k \in 1..Len(requests) :
         SeqRange(requests[k].ids) \subseteq SeqRange(bc.order_ids)

\* The second invocation is over; the first closed the identifiers, another
\* order rests on the venue, and the venue turned the requests down.
C12_Witness ==
  /\ bc.run = 2 /\ bc.pc = "done"
  /\ OpenAtCall = {}
  /\ venue_open # {}
  /\ Len(requests) >= 3
  /\ \A k \in 1..Len(requests) : requests[k].resp \in {"code 30000", "raised"}

BulkIdx == {k \in 1..Len(requests) : requests[k].kind = "bulk"}

\* C11: whatever the list handed in, duplicates included, each distinct
\* identifier is in exactly one bulk request, no bulk request carries more
\* than chunk_size identifiers, and there are ceil(distinct / chunk_size)
\* bulk requests.
C11_DedupedChunks ==
  LET distinct == SeqRange(bc.order_ids)
      n == Cardinality(distinct)
  IN  /\ \A k \in BulkIdx :
           /\ Len(requests[k].ids) <= bc.chunk_size
           /\ Len(requests[k].ids) >= 1
           /\ Cardinality(SeqRange(requests[k].ids)) = Len(requests[k].ids)
           /\ SeqRange(requests[k].ids) \subseteq distinct
      /\ \A j, k \in BulkIdx :
           j # k => SeqRange(requests[j].ids) \cap SeqRange(requests[k].ids) = {}
      /\ (bc.pc = "done" /\ ~dry_run) =>
           /\ \A oid \in distinct :
                Cardinality({k \in BulkIdx : oid \in SeqRange(requests[k].ids)}) = 1
           /\ n > 0 => Cardinality(BulkIdx) = (n + bc.chunk_size - 1) \div bc.chunk_size
           /\ (n > 0 /\ bc.batch_size = None) => bc.chunk_size = BATCH_SIZE
           /\ (n > 0 /\ bc.batch_size \notin {None, Some(0)}) =>
                bc.chunk_size = bc.batch_size[1]

\* A list with a duplicate and two distinct identifiers, cut into two chunks
\* of one.
C11_Witness ==
  /\ bc.pc = "done"
  /\ Len(bc.order_ids) > Cardinality(SeqRange(bc.order_ids))
  /\ Cardinality(SeqRange(bc.order_ids)) = 2
  /\ bc.batch_size = Some(1)
  /\ Cardinality(BulkIdx) = 2

\* ------------------------------------------------------------------------
\* adapters: cancel_orders_by_ids(ids), one model per way of doing it
\* ------------------------------------------------------------------------
\* Longest list handed to cancel_orders_by_ids; the identifiers are 1..n.
MaxListLen == 52

\* CCXTAdapter.cancel_orders_by_ids, line 117: ids[:50].
CcxtLimit == 50

\* DexTradeAdapter.cancel_orders_by_ids, line 99: range(3).
DexTradeAttempts == 3

CancelAdapters ==
  {"ccxt", "bitmart", "p2b", "biconomy", "tapbit", "dextrade", "backtest"}

\* The adapters whose method is one loop over ids with one request each.
OnePerIdAdapters == {"p2b", "biconomy", "tapbit", "backtest"}

\* What a cancel request can do: the venue accepts, the venue refuses, the
\* request raises.
CancelOutcomes == {"accepted", "refused", "raised"}

\* ids[:50]
ccxt_payload_ids(n) == 1..Min(n, CcxtLimit)

\* The loop over the attempts without its `break`.
dextrade_leaves_NoBreak(resp, attempt) == attempt + 1 >= DexTradeAttempts

\* Lines 99-126 of dextrade_adapter.py: `break` on j.get("status"), the next
\* attempt otherwise, until range(3) is used up.  TRUE when the loop leaves
\* the identifier.
dextrade_leaves(resp, attempt) ==
  resp = "accepted" \/ attempt + 1 >= DexTradeAttempts

InitAdapterCancel ==
  /\ adapter \in CancelAdapters
  /\ dry_run \in BOOLEAN
  /\ CycleAtRest
  /\ MainAtRest
  /\ CancelAtRest

AdvanceCx(frame) ==
  [frame EXCEPT !.k = frame.k + 1, !.attempt = 0, !.singles = 0,
                !.pc = IF frame.k + 1 > frame.n THEN "done" ELSE "loop"]

\* The guard every adapter starts with: nothing in dry-run mode, nothing for
\* an empty list.  (BacktestAdapter has no guard and no dry-run mode.)
AdapterCancelStart ==
  /\ cx.pc = "idle"
  /\ \E n \in 0..MaxListLen :
       cx' = IF (dry_run /\ adapter # "backtest") \/ n = 0
             THEN [IdleCx EXCEPT !.pc = "done", !.n = n]
             ELSE [IdleCx EXCEPT !.pc = "loop", !.n = n, !.k = 1]
  /\ UNCHANGED <<bc, requests>>
  /\ UNCHANGED <<adapter, dry_run, prev_ids, cycle_vars, main_vars, fn_vars>>

\* CCXTAdapter, lines 114-125: one bulk request for ids[:50], caught if it
\* raises.
AdapterCancelCcxt ==
  /\ adapter = "ccxt" /\ cx.pc = "loop"
  /\ \E resp \in CancelOutcomes :
       cx' = [cx EXCEPT !.pc = "done", !.named = ccxt_payload_ids(cx.n),
                        !.max_bulks = 1, !.last = resp]
  /\ UNCHANGED <<bc, requests>>
  /\ UNCHANGED <<adapter, dry_run, prev_ids, cycle_vars, main_vars, fn_vars>>

\* P2B lines 149-160, Biconomy 168-172, Tapbit 411-427, Backtest 24-25: one
\* request per identifier, a failure is logged or passed over.
AdapterCancelEach ==
  /\ adapter \in OnePerIdAdapters /\ cx.pc = "loop"
  /\ \E resp \in CancelOutcomes :
       cx' = AdvanceCx([cx EXCEPT !.named = cx.named \cup {cx.k},
                                  !.max_singles = Max(cx.max_singles, 1),
                                  !.last = resp])
  /\ UNCHANGED <<bc, requests>>
  /\ UNCHANGED <<adapter, dry_run, prev_ids, cycle_vars, main_vars, fn_vars>>

\* DexTrade, lines 98-126: up to three requests per identifier.
AdapterCancelDexTrade ==
  /\ adapter = "dextrade" /\ cx.pc = "loop"
  /\ \E resp \in CancelOutcomes :
       LET sent == [cx EXCEPT !.named = cx.named \cup {cx.k},
                              !.singles = cx.singles + 1,
                              !.max_singles = Max(cx.max_singles, cx.singles + 1),
                              !.last = resp]
       IN  cx' = IF dextrade_leaves(resp, cx.attempt)
                 THEN AdvanceCx(sent)
                 ELSE [sent EXCEPT !.attempt = cx.attempt + 1]
  /\ UNCHANGED <<bc, requests>>
  /\ UNCHANGED <<adapter, dry_run, prev_ids, cycle_vars, main_vars, fn_vars>>

\* BitMart, lines 103-110: _cancel_in_batches with the default chunk of 50;
\* one chunk per step: its bulk request and, if that fails, one individual
\* request for each of its identifiers.
AdapterCancelBitMart ==
  /\ adapter = "bitmart" /\ cx.pc = "loop"
  /\ \E resp \in CancelOutcomes :
       LET chunk == cx.k..Min(cx.k + chunk_size_of(None) - 1, cx.n)
           sent == [cx EXCEPT !.named = cx.named \cup chunk,
                              !.max_bulks = 1,
                              !.max_singles = IF resp = "accepted" THEN cx.max_singles
                                              ELSE 1,
                              !.last = resp,
                              !.k = cx.k + chunk_size_of(None)]
       IN  cx' = [sent EXCEPT !.pc = IF sent.k > cx.n THEN "done" ELSE "loop"]
  /\ UNCHANGED <<bc, requests>>
  /\ UNCHANGED <<adapter, dry_run, prev_ids, cycle_vars, main_vars, fn_vars>>

NextAdapterCancel ==
  \/ AdapterCancelStart
  \/ AdapterCancelCcxt
  \/ AdapterCancelEach
  \/ AdapterCancelDexTrade
  \/ AdapterCancelBitMart

SpecAdapterCancel == InitAdapterCancel /\ [][NextAdapterCancel]_vars

\* ------------------------------------------------------------------------
\* Properties of cancel_orders_by_ids (specification SpecAdapterCancel)
\* ------------------------------------------------------------------------
\* C13: for every adapter, cancel_orders_by_ids in live mode with a
\* non-empty list names every identifier of the list in at least one cancel
\* request, however long the list is.
C13_EveryIdAttempted ==
  (cx.pc = "done" /\ ~dry_run /\ cx.n >= 1) => cx.named = 1..cx.n

\* C14: nothing is tried again within a cycle but for the canceller's one
\* fallback: each identifier is the subject of at most one bulk and at most
\* one individual cancel request, for every adapter.
C14_NoRetry ==
  cx.max_bulks <= 1 /\ cx.max_singles <= 1

\* ------------------------------------------------------------------------
\* Quantities: clamp_by_limits and ensure_min_notional (specification SpecQty)
\*
\* Units of this section: a price is a whole number of hundredths of the
\* quote currency, a quantity a whole number of hundredths of the base
\* currency, a notional value (price times quantity) a whole number of
\* ten-thousandths of the quote currency.  QtyGrid is one whole unit of the
\* base currency.  The prices of QtyPriceSet divide min_cost, so min_cost /
\* price lies on the grid of hundredths as it lies on clamp_by_limits' grid
\* of 1e-8 and the ceiling of line 32 leaves it where it is in both.
\* ------------------------------------------------------------------------
QtyGrid == 100
CushionPct == 1
DefaultMinCost == 50000

QtyAdapters == {"bitmart", "biconomy", "tapbit"}
QtyPriceSet == {0 - 50, 0, 1, 25, 40, 50, 100, 200}
RawQtySet == {50, 240, 250, 260, 399, 1000, 100040}

\* get_limits(): min_amount in hundredths of the base currency, min_cost in
\* ten-thousandths of the quote currency.
get_limits(ad) ==
  IF ad = "bitmart" THEN [min_amount |-> 1000 * QtyGrid, min_cost |-> 10000]
  ELSE [min_amount |-> QtyGrid, min_cost |-> 10000]

\* The second component of get_steps(): 1 for the three adapters.
amount_step_of(ad) == QtyGrid

CeilDiv(a, b) == 0 - ((0 - a) \div b)

\* round(a): to the nearest whole number, a tie to the even one.
round_half_even(a) ==
  LET q == a \div QtyGrid
      r == a % QtyGrid
  IN  IF 2 * r < QtyGrid THEN q * QtyGrid
      ELSE IF 2 * r > QtyGrid THEN (q + 1) * QtyGrid
      ELSE IF q % 2 = 0 THEN q * QtyGrid ELSE (q + 1) * QtyGrid

\* int(a): towards zero.
truncate(a) ==
  IF a >= 0 THEN (a \div QtyGrid) * QtyGrid
  ELSE 0 - (((0 - a) \div QtyGrid) * QtyGrid)

\* int(a) for Tapbit, int(round(a)) for BitMart and Biconomy.
amount_to_precision(ad, a) ==
  IF ad = "tapbit" THEN truncate(a) ELSE round_half_even(a)

\* `limits.get(key) or default`
or_default(v, default) == IF v = 0 THEN default ELSE v

\* clamp_by_limits without lines 27-28: the amount is not raised to min_amount.
clamp_by_limits_NoRaise(amount, price, limits) ==
  LET min_cost == or_default(limits.min_cost, 0)
      a2 == IF min_cost > 0 /\ price * amount < min_cost /\ price > 0
            THEN Max(amount, CeilDiv(min_cost, price))
            ELSE amount
  IN  IF a2 > 0 THEN Some(a2) ELSE None

clamp_by_limits(amount, price, limits) ==
  LET min_amt == or_default(limits.min_amount, 0)
      min_cost == or_default(limits.min_cost, 0)
      a1 == IF amount < min_amt THEN min_amt ELSE amount
      a2 == IF min_cost > 0 /\ price * a1 < min_cost /\ price > 0
            THEN Max(a1, CeilDiv(min_cost, price))
            ELSE a1
  IN  IF a2 > 0 THEN Some(a2) ELSE None

\* target of ensure_min_notional: min_cost * (1 + cushion).
notional_target(limits) ==
  (or_default(limits.min_cost, DefaultMinCost) * (100 + CushionPct)) \div 100

\* Called with px > 0 only (line 94 of runner.py lifts the price to tick), so
\* max(px, 1e-12) is px; amount_step is positive, so max(amount_step, 1e-18)
\* is amount_step.
ensure_min_notional(px, qty, limits, amount_step, ad) ==
  LET target == notional_target(limits)
      notional == px * qty
      steps_needed == CeilDiv(target - notional, px * amount_step)
      qty_up == qty + steps_needed * amount_step
      k == CeilDiv(qty_up, amount_step)
      rounded == amount_to_precision(ad, k * amount_step)
  IN  IF notional >= target THEN amount_to_precision(ad, qty)
      ELSE IF px * rounded < target
           THEN amount_to_precision(ad, rounded + amount_step)
           ELSE rounded

InitQty ==
  /\ adapter \in QtyAdapters
  /\ dry_run = FALSE
  /\ CycleAtRest
  /\ MainAtRest
  /\ CancelAtRest

\* Line 106 (and 165) of runner.py.
QtyClamp ==
  /\ fx.pc = "idle"
  /\ \E price \in QtyPriceSet, raw_qty \in RawQtySet :
       fx' = [pc |-> "clamped", price |-> price, raw_qty |-> raw_qty,
              qty |-> clamp_by_limits(raw_qty, price, get_limits(adapter))]
  /\ UNCHANGED <<adapter, dry_run, prev_ids, cycle_vars, main_vars>>
  /\ UNCHANGED <<bc, requests, cx>>

\* Lines 107-112: a level without a quantity is passed over, the quantity of
\* any other goes through ensure_min_notional and on to create_limit.
QtyEnsure ==
  /\ fx.pc = "clamped" /\ fx.qty # None /\ fx.price > 0
  /\ fx' = [fx EXCEPT !.pc = "ensured",
                      !.qty = Some(ensure_min_notional(fx.price, fx.qty[1],
                                     get_limits(adapter), amount_step_of(adapter),
                                     adapter))]
  /\ UNCHANGED <<adapter, dry_run, prev_ids, cycle_vars, main_vars>>
  /\ UNCHANGED <<bc, requests, cx>>

NextQty ==
  \/ QtyClamp
  \/ QtyEnsure

SpecQty == InitQty /\ [][NextQty]_vars

\* C15: for every price > 0, raw quantity and venue limits, the quantity
\* handed to create_limit after clamp_by_limits, ensure_min_notional and the
\* adapter's amount_to_precision has price * quantity >= min_cost * 1.01.
C15_MinNotional ==
  fx.pc = "ensured" =>
    fx.price * fx.qty[1] >= notional_target(get_limits(adapter))

\* C16: clamp_by_limits returns None if and only if price <= 0.
C16_InfeasibleIffNoPrice ==
  fx.pc = "clamped" => ((fx.qty = None) <=> (fx.price <= 0))

\* ------------------------------------------------------------------------
\* run_once on a venue that reports its price step (specification SpecSteps)
\* ------------------------------------------------------------------------
InitSteps ==
  /\ adapter = "base"
  /\ dry_run = FALSE
  /\ CycleAtRest
  /\ MainAtRest
  /\ CancelAtRest

NextSteps ==
  \/ RunOnceFetchBtc
  \/ RunOnceFetchInfo
  \/ RunOnceBuild
  \/ RunOnceBuy
  \/ RunOnceSell
  \/ RunOnceCleanup
  \/ RunOnceReturn

SpecSteps == InitSteps /\ [][NextSteps]_vars

\* C17: when the venue reports a price step <= 0, run_once aborts the cycle:
\* it places and cancels nothing and the orders resting on the venue stay.
C17_BadStepAborts ==
  (ro.proc = "run_once" /\ ro.price_step # None /\ ro.price_step[1] <= 0) =>
    (calls = <<>> /\ venue_open = start_open)

\* ------------------------------------------------------------------------
\* Properties of the prices run_once submits (specification Spec)
\* ------------------------------------------------------------------------
\* C18: in run_once, when the venue reports a best ask and maker_guard_ticks
\* is positive, every submitted buy price is at most best_ask -
\* maker_guard_ticks * tick; when it reports a best bid, every submitted sell
\* price is at least best_bid + maker_guard_ticks * tick; whatever the quotes
\* are, zero included.
C18_MakerGuard ==
  (ro.proc = "run_once" /\ maker_guard_ticks > 0) =>
    \A k \in CreateIdx :
      /\ (calls[k].side = "buy" /\ ro.best_ask # None) =>
           calls[k].price <= ro.best_ask[1] - maker_guard_ticks * ro.tick
      /\ (calls[k].side = "sell" /\ ro.best_bid # None) =>
           calls[k].price >= ro.best_bid[1] + maker_guard_ticks * ro.tick

\* The create_limit call a step of a placement loop has just made.
JustPlaced(side) ==
  /\ ro.proc = "run_once" /\ ro.pc = side
  /\ Len(calls') = Len(calls) + 1

\* Neither the maker guard nor the floor of one tick moved the rounded price.
Unmoved(side, raw_price) ==
  LET p1 == adjust_precision(adapter, raw_price)
  IN  /\ p1 >= ro.tick
      /\ IF side = "buy" THEN buy_maker_guard(p1, ro.best_ask, ro.tick) = p1
         ELSE sell_maker_guard(p1, ro.best_bid, ro.tick) = p1

C19_Step ==
  /\ (JustPlaced("buy") /\ Unmoved("buy", ro.buy_prices[ro.i])) =>
       /\ calls'[Len(calls')].price = quantize_down(ro.buy_prices[ro.i], ro.tick)
       /\ calls'[Len(calls')].price <= ro.buy_prices[ro.i]
  /\ (JustPlaced("sell") /\ Unmoved("sell", ro.sell_prices[ro.i])) =>
       /\ calls'[Len(calls')].price = quantize_up(ro.sell_prices[ro.i], ro.tick)
       /\ calls'[Len(calls')].price >= ro.sell_prices[ro.i]

\* C19: when the maker guard does not move the price, the price run_once
\* submits for a buy level is the raw ladder price rounded down to the tick
\* grid, never above it, and the price it submits for a sell level is the raw
\* ladder price rounded up to the tick grid, never below it.
C19_DirectionalRounding == [][C19_Step]_vars

\* ------------------------------------------------------------------------
\* build_ladder on its own (specification SpecLadder)
\* ------------------------------------------------------------------------
MaxLadderDepth == 4

\* What random.uniform(gap_min, gap_max) can return: the two ends and a value
\* between them.
LadderGapSet == {gap_min, (gap_min + gap_max) \div 2, gap_max}
LadderMidSet == {55, 440715, 10120000}

InitLadder ==
  /\ adapter \in Adapters
  /\ dry_run = FALSE
  /\ CycleAtRest
  /\ MainAtRest
  /\ CancelAtRest

\* One call build_ladder(mid, side, depth, gap_min, gap_max).
LadderBuild ==
  /\ fx.pc = "idle"
  /\ \E mid \in LadderMidSet, side \in {"buy", "sell"}, depth \in 0..MaxLadderDepth :
       \E gaps \in SeqsOf(LadderGapSet, depth) :
         fx' = [pc |-> "built", mid |-> mid, side |-> side, depth |-> depth,
                gaps |-> gaps, levels |-> build_ladder(mid, side, depth, gaps)]
  /\ UNCHANGED <<adapter, dry_run, prev_ids, cycle_vars, main_vars>>
  /\ UNCHANGED <<bc, requests, cx>>

\* The caller drops the list.
LadderDrop ==
  /\ fx.pc = "built"
  /\ fx' = IdleFx
  /\ UNCHANGED <<adapter, dry_run, prev_ids, cycle_vars, main_vars>>
  /\ UNCHANGED <<bc, requests, cx>>

NextLadder ==
  \/ LadderBuild
  \/ LadderDrop

SpecLadder == InitLadder /\ [][NextLadder]_vars

\* Distance of level k from mid, on the side the ladder was built for.
LadderDistance(k) ==
  IF k = 0 THEN 0
  ELSE IF fx.side = "buy" THEN fx.mid - fx.levels[k] ELSE fx.levels[k] - fx.mid

\* C20: build_ladder returns exactly depth prices; each level lies one gap
\* of [gap_min, gap_max] further from mid than the level before it (the first
\* one gap from mid), so the distance is the sum of the gaps so far and grows
\* strictly with the level; every buy level is strictly below mid and every
\* sell level strictly above it.
C20_LadderShape ==
  fx.pc = "built" =>
    /\ Len(fx.levels) = fx.depth
    /\ \A k \in 1..Len(fx.levels) :
         /\ LadderDistance(k) - LadderDistance(k - 1) = fx.gaps[k]
         /\ LadderDistance(k) - LadderDistance(k - 1) >= gap_min
         /\ LadderDistance(k) - LadderDistance(k - 1) <= gap_max
         /\ LadderDistance(k) > LadderDistance(k - 1)
         /\ fx.side = "buy" => fx.levels[k] < fx.mid
         /\ fx.side = "sell" => fx.levels[k] > fx.mid

\* A sell ladder of full depth built from unequal gaps.
C20_Witness ==
  /\ fx.pc = "built" /\ fx.side = "sell" /\ fx.depth = MaxLadderDepth
  /\ fx.gaps[1] # fx.gaps[2]
  /\ fx.levels[MaxLadderDepth] > fx.mid + MaxLadderDepth * gap_min

\* C21: among the orders run_once submits on one side within one cycle, each
\* is strictly farther from the reference price than the ones submitted
\* before it: submitted buy prices strictly decrease and submitted sell
\* prices strictly increase, rounding and maker guard included.
C21_SubmittedMonotone ==
  ro.proc = "run_once" =>
    \A j \in CreateIdx, k \in CreateIdx :
      j < k =>
        /\ (calls[j].side = "buy" /\ calls[k].side = "buy") =>
             calls[k].price < calls[j].price
        /\ (calls[j].side = "sell" /\ calls[k].side = "sell") =>
             calls[k].price > calls[j].price

\* Levels of the cycle the loops have gone through: the ones submitted and
\* the ones the price checks turned down.
LevelsProcessed == Cardinality(CreateIdx) + PriceRejected

\* C22: a level that is rejected by the price checks, or whose create_limit
\* returns no identifier or raises, does not end the cycle: run_once goes
\* through all 2 * depth levels of both sides and the reconciliation step
\* still runs.
C22_LevelsIndependent ==
  ro.proc = "run_once" =>
    /\ ro.pc \in {"cleanup", "report", "done"} => LevelsProcessed = 2 * ro.depth
    /\ (ro.pc \in {"report", "done"} /\ ~dry_run) => FetchIdx # {}

\* A finished cycle in which a buy level was turned down by the price checks,
\* a placement failed, a later level was still placed and the open orders
\* were fetched.
C22_Witness ==
  /\ ro.proc = "run_once" /\ ro.pc = "done" /\ ro.depth = depth_max
  /\ PriceRejected > 0
  /\ \E j \in CreateIdx, k \in CreateIdx :
       j < k /\ calls[j].oid = None /\ calls[k].oid # None
  /\ FetchIdx # {}

\* ------------------------------------------------------------------------
\* main: building the adapter list (specification SpecStartup)
\* ------------------------------------------------------------------------
MaxExchanges == 2

StartupVenues == {"bitmart", "p2b", "dextrade"}

\* config.EXCHANGES: a list of ExchangeConfig with distinct ids; dryrun.py
\* sets dry_run on every entry before main runs.
ExchangeConfigs ==
  [id : StartupVenues, enabled : BOOLEAN, dry_run : BOOLEAN]

RECURSIVE ConfigLists(_)
ConfigLists(n) ==
  IF n = 0 THEN {<<>>}
  ELSE {Append(s, c) : s \in ConfigLists(n - 1), c \in ExchangeConfigs}

DistinctIds(cfgs) ==
  \A i \in 1..Len(cfgs), j \in 1..Len(cfgs) : cfgs[i].id = cfgs[j].id => i = j

ExchangeLists ==
  {cfgs \in UNION {ConfigLists(n) : n \in 1..MaxExchanges} : DistinctIds(cfgs)}

\* build_adapter(cfg): BitMartAdapter.__init__ raises ValueError when a
\* credential is missing from the environment; the other constructors only
\* read the environment.
build_adapter_outcomes(id) ==
  IF id = "bitmart" THEN {"ok", "raised"} ELSE {"ok"}

\* ad.connect(): every adapter's connect only writes to the log.
connect_outcomes(id) == {"ok"}

\* The adapter the except clause appends: the local `ad` as the try block
\* left it.  build_adapter raised before `ad = ...` was executed, so `ad` is
\* what an earlier iteration bound, or unbound.
ad_in_except(ad, id, built) == IF built THEN Some(id) ELSE ad

InitStartup ==
  /\ adapter = "bitmart"
  /\ dry_run = FALSE
  /\ CycleAtRest
  /\ RUNNING = TRUE
  /\ adapters = <<>>
  /\ main \in {[pc |-> "for", cfgs |-> cfgs, ix |-> 1, ad |-> None, failed |-> {}] :
                 cfgs \in ExchangeLists}
  /\ mlog = <<>>
  /\ CancelAtRest

StartupStep(frame) ==
  [frame EXCEPT !.ix = frame.ix + 1]

\* Lines 54-56: `if not cfg.enabled: continue`.
StartupDisabled ==
  /\ main.pc = "for" /\ main.ix <= Len(main.cfgs)
  /\ ~main.cfgs[main.ix].enabled
  /\ main' = StartupStep(main)
  /\ UNCHANGED <<RUNNING, adapters, mlog>>
  /\ UNCHANGED <<adapter, dry_run, prev_ids, cycle_vars, cancel_vars, fn_vars>>

\* Lines 60-78: one enabled venue.  A reference to the unbound local `ad` in
\* the except clause raises UnboundLocalError, which nothing catches.
StartupVenue ==
  /\ main.pc = "for" /\ main.ix <= Len(main.cfgs)
  /\ main.cfgs[main.ix].enabled
  /\ LET cfg == main.cfgs[main.ix]
     IN  \E b \in build_adapter_outcomes(cfg.id), c \in connect_outcomes(cfg.id) :
           IF b = "ok" /\ c = "ok"
           THEN /\ adapters' = Append(adapters, cfg.id)
                /\ main' = StartupStep([main EXCEPT !.ad = Some(cfg.id)])
                /\ mlog' = Append(mlog, [ev |-> "connected", key |-> cfg.id])
           ELSE LET ad == ad_in_except(main.ad, cfg.id, b = "ok")
                    failed == main.failed \cup {cfg.id}
                IN  IF ~cfg.dry_run
                    THEN /\ main' = StartupStep([main EXCEPT !.ad = ad, !.failed = failed])
                         /\ mlog' = Append(mlog, [ev |-> "skipped", key |-> cfg.id])
                         /\ UNCHANGED adapters
                    ELSE IF ad = None
                    THEN /\ main' = [main EXCEPT !.pc = "crashed", !.failed = failed]
                         /\ mlog' = Append(mlog, [ev |-> "UnboundLocalError", key |-> cfg.id])
                         /\ UNCHANGED adapters
                    ELSE /\ adapters' = Append(adapters, ad[1])
                         /\ main' = StartupStep([main EXCEPT !.ad = ad, !.failed = failed])
                         /\ mlog' = Append(mlog, [ev |-> "dry-run", key |-> cfg.id])
  /\ UNCHANGED RUNNING
  /\ UNCHANGED <<adapter, dry_run, prev_ids, cycle_vars, cancel_vars, fn_vars>>

\* Line 80: the list is complete, main goes on to its loop.
StartupDone ==
  /\ main.pc = "for" /\ main.ix > Len(main.cfgs)
  /\ main' = [main EXCEPT !.pc = "while"]
  /\ UNCHANGED <<RUNNING, adapters, mlog>>
  /\ UNCHANGED <<adapter, dry_run, prev_ids, cycle_vars, cancel_vars, fn_vars>>

NextStartup ==
  \/ StartupDisabled
  \/ StartupVenue
  \/ StartupDone

SpecStartup == InitStartup /\ [][NextStartup]_vars

TimesListed(id) == Cardinality({k \in 1..Len(adapters) : adapters[k] = id})

\* C23: for every enabled venue whose adapter construction or connect()
\* fails, the venue is absent from the adapter list when it is configured
\* live and present exactly once when it is configured dry_run; start-up
\* goes on, main does not crash, and no venue's adapter is listed twice.
C23_StartupIsolated ==
  /\ main.pc # "crashed"
  /\ \A id \in StartupVenues : TimesListed(id) <= 1
  /\ main.pc = "while" =>
       \A i \in 1..Len(main.cfgs) :
         (main.cfgs[i].enabled /\ main.cfgs[i].id \in main.failed) =>
           TimesListed(main.cfgs[i].id) = (IF main.cfgs[i].dry_run THEN 1 ELSE 0)

\* ------------------------------------------------------------------------
\* Requests a cycle sends to the venue (specification Spec)
\* ------------------------------------------------------------------------
\* TRUE when the adapter method sends an HTTP request.  fetch_btc_last and
\* fetch_best_quotes of BitMartAdapter and P2BAdapter do not look at
\* self.dry_run; create_limit, fetch_open_orders and cancel_orders_by_ids
\* return before the request when it is set.
sends_request(ad, op, dry) ==
  IF op \in {"fetch_btc_last", "fetch_best_quotes"} THEN TRUE ELSE ~dry

\* The adapter methods the cycle in progress has called so far.
MethodsCalled ==
  (IF ro.btc_fetch # "none" THEN {"fetch_btc_last"} ELSE {})
    \cup (IF ro.price_step # None THEN {"fetch_best_quotes"} ELSE {})
    \cup {calls[k].op : k \in 1..Len(calls)}

C24_Requests ==
  {op \in MethodsCalled : sends_request(adapter, op, dry_run)}

\* C24: a cycle of an adapter in dry-run mode sends no request to the venue:
\* not for the anchor price, the best quotes, an order placement, the open
\* orders or a cancellation.
C24_DryRunOffline ==
  (ro.proc = "run_once" /\ dry_run) => C24_Requests = {}

\* ------------------------------------------------------------------------
\* What a cycle returns and what the next one is given (specification Spec)
\* ------------------------------------------------------------------------
\* Identifiers the create_limit calls of the cycle returned for an order:
\* not None, not the dry-run marker.
ReturnedIds ==
  {calls[k].oid[1] :
     k \in {j \in CreateIdx : calls[j].oid # None /\ calls[j].oid # Some(DryLiteral)}}

C25_Returned ==
  (ro.proc = "run_once" /\ ro.pc = "done") =>
    /\ result = Some(ReturnedIds)
    /\ ReturnedIds \cap ro.prev_cycle_ids = {}
    /\ ReturnedIds \cap start_open = {}
    /\ prev_ids[adapter] = result

\* The step that starts run_once after a cycle that returned normally.
C25_Passed ==
  (ro.proc = "run_once" /\ ro.pc = "done" /\ cycle' = cycle + 1
     /\ ro'.proc = "run_once") =>
    ro'.arg = result

\* C25: a cycle that is not aborted and raises nothing returns exactly the
\* identifiers its successful create_limit calls returned, none of an earlier
\* cycle and none of a failed placement; main stores the set as the venue's
\* prev_ids and passes it to the venue's next run_once.
C25_ReturnsPlacedSet == []C25_Returned /\ [][C25_Passed]_vars

\* A second cycle has returned a non-empty set although one of its
\* placements failed; the cycle before it had returned a non-empty set too.
C25_Witness ==
  /\ ro.proc = "run_once" /\ ro.pc = "done" /\ cycle = 2
  /\ ro.prev_cycle_ids # {}
  /\ ReturnedIds # {}
  /\ \E k \in CreateIdx : calls[k].oid = None

\* ------------------------------------------------------------------------
\* How long an order stays on the venue (specification Spec)
\* ------------------------------------------------------------------------
\* Identifiers the cycle passed to cancel_orders_by_ids.
PassedToCancel == UNION {calls[x].ids : x \in CancelIdx}

\* Identifiers the open-order fetch of the cycle reported.
ReportedOpen == UNION {calls[f].ids : f \in FetchIdx}

Reconciled == ro.proc = "run_once" /\ ro.pc \in {"report", "done"}

C26_Reported ==
  (Reconciled /\ ~dry_run) =>
    /\ FetchIdx # {}
    /\ \A id \in ro.prev_cycle_ids \cap ReportedOpen : id \in PassedToCancel

\* The reconciliation step whose fetch returned every open order and whose
\* cancel requests all closed their orders.
C26_AllSucceeded ==
  /\ ro.proc = "run_once" /\ ro.pc = "cleanup" /\ ro'.pc = "report" /\ ~dry_run
  /\ \E f \in 1..Len(calls') : calls'[f].op = "fetch_open_orders"
                                /\ calls'[f].ids = venue_open
  /\ venue_open' = venue_open \ UNION {calls'[x].ids :
                      x \in {k \in 1..Len(calls') : calls'[k].op = "cancel_orders_by_ids"}}

C27_AtLeastMinAmount ==
  fx.pc = "ensured" => fx.qty[1] >= get_limits(adapter).min_amount

\* A raw quantity below min_amount went through both functions and came out
\* as min_amount itself.
C27_Witness ==
  /\ fx.pc = "ensured"
  /\ fx.raw_qty < get_limits(adapter).min_amount
  /\ fx.qty[1] = get_limits(adapter).min_amount

\* ------------------------------------------------------------------------
\* The depth of a cycle (specification Spec)
\* ------------------------------------------------------------------------
SideCalls(side) == {k \in CreateIdx : calls[k].side = side}

\* C28: in a cycle that is not aborted the depth is drawn once, lies in
\* [depth_min, depth_max] and is shared by both sides: each ladder has
\* exactly depth levels, so the cycle makes at most depth create_limit calls
\* per side and at most 2 * depth_max in all.
C28_SharedDepth ==
  (ro.proc = "run_once" /\ ro.pc \in {"buy", "sell", "cleanup", "report", "done"}) =>
    /\ ro.depth \in depth_min..depth_max
    /\ Len(ro.buy_prices) = ro.depth
    /\ Len(ro.sell_prices) = ro.depth
    /\ Cardinality(SideCalls("buy")) <= ro.depth
    /\ Cardinality(SideCalls("sell")) <= ro.depth
    /\ Cardinality(CreateIdx) <= 2 * depth_max

\* A finished cycle of the largest depth that submitted every level.
C28_Witness ==
  /\ ro.proc = "run_once" /\ ro.pc = "done"
  /\ ro.depth = depth_max
  /\ Cardinality(SideCalls("buy")) = depth_max
  /\ Cardinality(SideCalls("sell")) = depth_max

\* ------------------------------------------------------------------------
\* main: the sleep after a tick (specification SpecSleep)
\*
\* Units of this section: tenths of a second.  e is time.time() - start on
\* line 93, the time the for loop of the tick took; the clock does not run
\* backwards, and the time between reading the clock and falling asleep is
\* left out.
\* ------------------------------------------------------------------------
interval_min_s == 50
interval_max_s == 100
SleepFloor == 1
MaxElapsed == 120

\* The sleep without the elapsed time taken off.
sleep_for_WholeInterval(sleep_time, elapsed) == Max(SleepFloor, sleep_time)

\* max(0.1, sleep_time - (time.time() - start))
sleep_for(sleep_time, elapsed) == Max(SleepFloor, sleep_time - elapsed)

InitSleep ==
  /\ adapter \in Adapters
  /\ dry_run = FALSE
  /\ CycleAtRest
  /\ MainAtRest
  /\ CancelAtRest

\* Lines 83-90: the tick's for loop ran for e.
TickRun ==
  /\ fx.pc = "idle"
  /\ \E e \in 0..MaxElapsed : fx' = [pc |-> "ran", e |-> e]
  /\ UNCHANGED <<adapter, dry_run, prev_ids, cycle_vars, main_vars>>
  /\ UNCHANGED <<bc, requests, cx>>

\* Lines 92-93: the interval is drawn and the process goes to sleep.
TickSleep ==
  /\ fx.pc = "ran"
  /\ \E d \in interval_min_s..interval_max_s :
       fx' = [pc |-> "sleeping", e |-> fx.e, d |-> d, sleep |-> sleep_for(d, fx.e)]
  /\ UNCHANGED <<adapter, dry_run, prev_ids, cycle_vars, main_vars>>
  /\ UNCHANGED <<bc, requests, cx>>

\* time.sleep returns and line 83 of the next tick reads the clock: period
\* is the time from tick start to tick start.
TickWake ==
  /\ fx.pc = "sleeping"
  /\ fx' = [pc |-> "woke", e |-> fx.e, d |-> fx.d, sleep |-> fx.sleep,
            period |-> fx.e + fx.sleep]
  /\ UNCHANGED <<adapter, dry_run, prev_ids, cycle_vars, main_vars>>
  /\ UNCHANGED <<bc, requests, cx>>

NextSleep ==
  \/ TickRun
  \/ TickSleep
  \/ TickWake

SpecSleep == InitSleep /\ [][NextSleep]_vars

\* C29: after each tick the scheduler sleeps for max(floor, d - e), d drawn
\* from [interval_min_s, interval_max_s], e the time elapsed since the tick
\* started, floor 0.1 s: never below the floor, never above interval_max_s,
\* and tick start to next tick start is d whenever e <= d - floor.
C29_SleepBounds ==
  fx.pc \in {"sleeping", "woke"} =>
    /\ fx.d - fx.e >= SleepFloor => fx.sleep = fx.d - fx.e
    /\ fx.d - fx.e < SleepFloor => fx.sleep = SleepFloor
    /\ fx.sleep >= SleepFloor
    /\ fx.sleep <= interval_max_s
    /\ (fx.pc = "woke" /\ fx.e <= fx.d - SleepFloor) => fx.period = fx.d

\* A tick whose loop took some time but less than the interval, and the next
\* tick started one interval after it.
C29_Witness ==
  /\ fx.pc = "woke"
  /\ fx.e > 0 /\ fx.e < fx.d - SleepFloor
  /\ fx.period = fx.d

\* ------------------------------------------------------------------------
\* run_once on an account that holds an order the bot did not place
\* (specification SpecForeign)
\* ------------------------------------------------------------------------
InitForeign ==
  /\ adapter \in Adapters
  /\ dry_run = FALSE
  /\ cycle = 0
  /\ prev_ids = [a \in VenueKeys |-> None]
  /\ ro = IdleFrame
  /\ calls = <<>>
  /\ venue_open = ForeignOrders
  /\ next_id = 1
  /\ result = None
  /\ start_open = {}
  /\ MainAtRest
  /\ CancelAtRest

SpecForeign == InitForeign /\ [][NextSteps]_vars

\* C30 as stated: every identifier run_once passes to cancel_orders_by_ids
\* is of an order the bot placed in an earlier cycle; an order on the same
\* account and pair that the bot did not place is never cancelled by a cycle.
C30_OnlyOwnOrders ==
  ro.proc = "run_once" => PassedToCancel \cap ForeignOrders = {}

\* C30 amended: every identifier run_once passes to cancel_orders_by_ids is
\* one the open-order fetch of the cycle reported and the cycle did not
\* place; an order the bot did not place is among them whenever the fetch
\* reports it.
C30_EveryReportedOrder ==
  ro.proc = "run_once" =>
    /\ PassedToCancel \subseteq ReportedOpen \ ro.new_order_ids
    /\ ro.pc \in {"report", "done"} =>
         ForeignOrders \cap ReportedOpen \subseteq PassedToCancel

\* The cycle placed orders, the fetch reported them together with the order
\* placed by hand, and that order was passed to cancellation and closed.
C30_Witness ==
  /\ ro.proc = "run_once" /\ ro.pc = "done"
  /\ ro.new_order_ids # {}
  /\ ForeignOrders \subseteq PassedToCancel
  /\ venue_open = ro.new_order_ids

\* ------------------------------------------------------------------------
\* The venue's book over several live cycles (specification SpecBook)
\*
\* One step is one whole call of run_once in live mode; of the cycle only
\* what it leaves on the venue is kept: the orders it placed there and the
\* orders its reconciliation closed.
\* ------------------------------------------------------------------------
MaxBookCycles == 3

InitBook ==
  /\ adapter \in Adapters
  /\ dry_run = FALSE
  /\ CycleAtRest
  /\ MainAtRest
  /\ CancelAtRest

\* Lines 42-44: the cycle is aborted, nothing is placed or cancelled.
BookCycleAborted ==
  /\ cycle < MaxBookCycles
  /\ \E f \in fetch_btc_last_outcomes(adapter) :
       mid_price_invalid(btc_price_or_fallback(f) * reference_multiplier)
  /\ cycle' = cycle + 1
  /\ start_open' = venue_open
  /\ LET prev_cycle_ids == IF prev_ids[adapter] = None THEN {}
                           ELSE prev_ids[adapter][1]
     IN  /\ result' = Some(prev_cycle_ids)
         /\ prev_ids' = [prev_ids EXCEPT ![adapter] = Some(prev_cycle_ids)]
  /\ UNCHANGED <<adapter, dry_run, ro, calls, venue_open, next_id>>
  /\ UNCHANGED <<main_vars, cancel_vars, fn_vars>>

\* Lines 52-205: of the 2 * depth levels, `placed` are accepted by the venue
\* (the others are turned down by the price checks or fail); then the open
\* orders are fetched, the fetch failing or not, and the stale ones are
\* passed to cancellation, which closes any of them.
BookCycle ==
  /\ cycle < MaxBookCycles
  /\ \E depth \in randint(depth_min, depth_max) :
       \E placed \in 0..(2 * depth), ok \in BOOLEAN :
         LET new_order_ids == next_id..(next_id + placed - 1)
             resting == venue_open \cup new_order_ids
             open_orders == fetch_open_orders(adapter, dry_run, resting, ok)
             stale == to_cancel(current_ids(open_orders), new_order_ids)
         IN  /\ next_id' = next_id + placed
             /\ \E closed \in SUBSET stale :
                  venue_open' = IF should_cancel(stale) THEN resting \ closed
                                ELSE resting
             /\ result' = Some(new_order_ids)
             /\ prev_ids' = [prev_ids EXCEPT ![adapter] = Some(new_order_ids)]
  /\ cycle' = cycle + 1
  /\ start_open' = venue_open
  /\ UNCHANGED <<adapter, dry_run, ro, calls>>
  /\ UNCHANGED <<main_vars, cancel_vars, fn_vars>>

NextBook ==
  \/ BookCycleAborted
  \/ BookCycle

SpecBook == InitBook /\ [][NextBook]_vars

\* C31: after any sequence of cycles, whatever venue calls fail, at most
\* 4 * depth_max orders of the bot rest on the venue (the ladder of the cycle
\* before and the ladder of this one); a failed open-order fetch does not let
\* orders of older cycles pile up.
C31_BookBounded == Cardinality(venue_open) <= 4 * depth_max

\* ------------------------------------------------------------------------
\* The records of fetch_open_orders, adapter by adapter (specification
\* SpecRecords)
\*
\* BitMart, P2B and DexTrade rebuild each record as {"id": ...}; Biconomy
\* and Tapbit hand on the records of the venue's response as they are.
\* Tapbit names the identifier 'orderId' (the adapter reads that key from
\* the same records and from the response of create_limit); the key of
\* Biconomy's records is not read anywhere in the adapter, so it is either.
\* ------------------------------------------------------------------------
RecordAdapters == {"bitmart", "p2b", "dextrade", "biconomy", "tapbit"}

record_keys(ad) ==
  CASE ad \in {"bitmart", "p2b", "dextrade"} -> {"id"}
    [] ad = "tapbit" -> {"orderId"}
    [] OTHER -> {"id", "order_id"}

\* One record of an open order: the identifier under `key`, o.get("id")
\* giving None for every other key.
open_order_record(o, key) ==
  [id |-> IF key = "id" THEN Some(o) ELSE None, key |-> key, order |-> o]

adapter_fetch_open_orders(ad, dry, venue, ok, key) ==
  IF dry \/ ~ok THEN {} ELSE {open_order_record(o, key) : o \in venue}

InitRecords ==
  /\ adapter \in RecordAdapters
  /\ dry_run = FALSE
  /\ cycle = 0
  /\ prev_ids = [a \in VenueKeys |-> None]
  /\ ro = IdleFrame
  /\ calls = <<>>
  /\ venue_open \in SUBSET (1..MaxOrderIds)
  /\ next_id = 1
  /\ result = None
  /\ start_open = venue_open
  /\ MainAtRest
  /\ CancelAtRest

\* Lines 187-194 of runner.py, new_order_ids being the orders of this cycle
\* among those that rest on the venue.
RecordsCleanup ==
  /\ fx.pc = "idle"
  /\ \E new_order_ids \in SUBSET venue_open, ok \in BOOLEAN,
        key \in record_keys(adapter) :
       LET open_orders ==
             adapter_fetch_open_orders(adapter, dry_run, venue_open, ok, key)
           stale == to_cancel(current_ids(open_orders), new_order_ids)
       IN  fx' = [pc |-> "cleaned", open_orders |-> open_orders,
                  new_order_ids |-> new_order_ids,
                  passed |-> IF should_cancel(stale) THEN stale ELSE {}]
  /\ UNCHANGED <<adapter, dry_run, prev_ids, cycle_vars, main_vars>>
  /\ UNCHANGED <<bc, requests, cx>>

\* The next cycle.
RecordsReturn ==
  /\ fx.pc = "cleaned"
  /\ fx' = IdleFx
  /\ UNCHANGED <<adapter, dry_run, prev_ids, cycle_vars, main_vars>>
  /\ UNCHANGED <<bc, requests, cx>>

NextRecords ==
  \/ RecordsCleanup
  \/ RecordsReturn

SpecRecords == InitRecords /\ [][NextRecords]_vars

\* C32: for each of the five adapters in live mode, every order that
\* fetch_open_orders returns and that was not placed in this cycle is passed
\* to cancel_orders_by_ids in this cycle.
C32_ReturnedStalePassed ==
  fx.pc = "cleaned" =>
    \A r \in fx.open_orders :
      r.order \notin fx.new_order_ids => r.order \in fx.passed

\* ------------------------------------------------------------------------
\* backtest_adapter.py: the orders of BacktestAdapter (specification
\* SpecBacktest)
\*
\* venue_open is the key set of self.orders, the order "bt-n" being n.
\* ------------------------------------------------------------------------
MaxBacktestOrders == 6

\* oid = f"bt-{len(self.orders)+1}"
backtest_oid(orders) == Cardinality(orders) + 1

InitBacktest ==
  /\ adapter = "backtest"
  /\ dry_run = FALSE
  /\ CycleAtRest
  /\ MainAtRest
  /\ CancelAtRest

\* create_limit: the order is stored under its identifier, taking the place
\* of whatever was stored under it.
BacktestCreateLimit ==
  /\ Cardinality(venue_open) < MaxBacktestOrders
  /\ LET oid == backtest_oid(venue_open)
     IN  /\ venue_open' = venue_open \cup {oid}
         /\ fx' = [pc |-> "created", oid |-> oid, resting |-> venue_open]
  /\ UNCHANGED <<adapter, dry_run, prev_ids, main_vars>>
  /\ UNCHANGED <<cycle, ro, calls, next_id, result, start_open>>
  /\ UNCHANGED <<bc, requests, cx>>

\* cancel_orders_by_ids: every listed identifier is popped.
BacktestCancel ==
  /\ \E ids \in SUBSET (1..MaxBacktestOrders) :
       /\ ids # {}
       /\ venue_open' = venue_open \ ids
  /\ fx' = IdleFx
  /\ UNCHANGED <<adapter, dry_run, prev_ids, main_vars>>
  /\ UNCHANGED <<cycle, ro, calls, next_id, result, start_open>>
  /\ UNCHANGED <<bc, requests, cx>>

NextBacktest ==
  \/ BacktestCreateLimit
  \/ BacktestCancel

SpecBacktest == InitBacktest /\ [][NextBacktest]_vars

\* C33: the identifier create_limit of BacktestAdapter returns differs from
\* the identifier of every order resting at the time of the call, however
\* create_limit and cancel_orders_by_ids interleave.
C33_FreshOrderId ==
  fx.pc = "created" => fx.oid \notin fx.resting

\* ------------------------------------------------------------------------
\* Dry-run cycles (specification Spec)
\* ------------------------------------------------------------------------
\* C34: in dry-run mode, whichever the adapter, run_once returns the empty
\* set, so that the stored identifiers of the venue stay empty.
C34_DryRunReturnsEmpty ==
  (dry_run /\ ro.proc = "run_once" /\ ro.pc = "done") =>
    /\ result = Some({})
    /\ prev_ids[adapter] \in {None, Some({})}

\* ------------------------------------------------------------------------
\* The counters of a cycle (specification Spec)
\* ------------------------------------------------------------------------
\* C35: at the end of a live cycle that was not aborted, rejected <= attempted
\* and each of the 2 * depth levels is counted once, as an order placed or in
\* rejected.
C35_CountersAccount ==
  (~dry_run /\ ro.proc = "run_once" /\ ro.pc = "done") =>
    /\ ro.rejected <= ro.attempted
    /\ Cardinality(ro.new_order_ids) + ro.rejected = 2 * ro.depth

\* The first half of C35 alone: it is the one that fails.
C35_RejectedWithinAttempted ==
  (~dry_run /\ ro.proc = "run_once" /\ ro.pc = "done") =>
    ro.rejected <= ro.attempted

\* The second half of C35 alone: it holds.
C35_EveryLevelCounted ==
  (~dry_run /\ ro.proc = "run_once" /\ ro.pc = "done") =>
    Cardinality(ro.new_order_ids) + ro.rejected = 2 * ro.depth

\* ------------------------------------------------------------------------
\* Shutdown (specification SpecMainFair)
\*
\* The main thread goes on running: the loop test, the call of run_once, its
\* return (every adapter call returns) and the end of time.sleep each happen
\* once they can.  The signal is under no obligation to arrive.
\* ------------------------------------------------------------------------
FairMain ==
  /\ WF_vars(MainWhile)
  /\ WF_vars(MainCall)
  /\ WF_vars(MainRunOnce)
  /\ WF_vars(MainSleep)
  /\ WF_vars(MainWake)

SpecMainFair == InitMain /\ [][NextMain]_vars /\ FairMain

\* Once RUNNING is false no new pass over the venues begins: what is left is
\* the rest of the pass under way and its one sleep.
NoNewPassAfterStop == ~RUNNING => main'.tick = main.tick

\* C36: once stop() has set RUNNING to false the loop is left and main
\* returns, after at most the rest of the current pass over the venues and
\* one sleep.
C36_ShutdownTerminates ==
  /\ (~RUNNING) ~> (main.pc = "stopped")
  /\ [][NoNewPassAfterStop]_vars

\* main has returned after a stop that came during a pass, a run_once call
\* and the sleep of that pass having followed the signal.
C36_Witness ==
  /\ main.pc = "stopped"
  /\ \E i, j \in 1..Len(mlog) :
       /\ i < j
       /\ mlog[i].ev = "stop"
       /\ mlog[j].ev = "return"

\* ------------------------------------------------------------------------
\* DexTradeAdapter.cancel_orders_by_ids (specification SpecAdapterCancel)
\* ------------------------------------------------------------------------
\* C37: DexTradeAdapter.cancel_orders_by_ids sends at most 3 cancel requests
\* for one identifier; it sends another request for an identifier only if no
\* request for it was acknowledged as successful; after 3 unsuccessful
\* attempts it goes on to the next identifier, so that every identifier
\* before the current one has been named in a request and, at the end, every
\* identifier of the list.
C37_DexTradeRetries ==
  adapter = "dextrade" =>
    /\ cx.singles <= DexTradeAttempts /\ cx.max_singles <= DexTradeAttempts
    /\ (cx.pc = "loop" /\ cx.singles >= 1) =>
         (cx.last # "accepted" /\ cx.singles < DexTradeAttempts)
    /\ cx.pc = "loop" => (1..(cx.k - 1)) \subseteq cx.named
    /\ (cx.pc = "done" /\ ~dry_run /\ cx.n >= 1) => cx.named = 1..cx.n

\* A list of two identifiers or more is done, one identifier having taken
\* all three attempts and the last request having been acknowledged.
C37_Witness ==
  /\ adapter = "dextrade" /\ ~dry_run
  /\ cx.pc = "done" /\ cx.n >= 2
  /\ cx.max_singles = DexTradeAttempts
  /\ cx.last = "accepted"

====
